---- MODULE Spec2Model ----
(***************************************************************************)
(* A model of the messaging and dispatch spine of metaroot: the reflective *)
(* dispatcher (call_method), the RPC server's consume callback and start   *)
(* loop, the Consumer's consume callback, the RPC client's send, the       *)
(* Producer's send, the Router (construction, _safe_call, public methods,  *)
(* finalize), shutdown of the server and of the Consumer, the client       *)
(* facade, and the configuration loader.                                   *)
(*                                                                         *)
(* Each component has its own specification (SpecDispatch, SpecServer,     *)
(* SpecConsumer, SpecClient, SpecProducer, SpecRouter, SpecStart,          *)
(* SpecRouterLife, SpecRouterPublic, SpecFacade, SpecConfig; SpecSenders   *)
(* runs either sender, SpecRpc one client with one server); the variables  *)
(* of the other components keep their idle values under it.                *)
(***************************************************************************)
EXTENDS Integers, Sequences, FiniteSets, TLC

VARIABLES
  \* --- dispatcher (call_method applied to one handler and one message)
  dHandler,      \* the handler object
  dMessage,      \* the decoded message
  dOutcome,      \* what the handler method does if it is invoked
  dPc,           \* "input" | "server" | "consumer"
  dRet,          \* the outcome of call_method
  \* --- RPC server (consume_callback on the messages of its queue)
  srvQueue,      \* the requests published to the server's queue, not yet delivered
  srvCur,        \* the delivery being handled by consume_callback
  srvPc,         \* the position of the server in its callback
  srvMessage,    \* consume_callback's local `message`
  srvResult,     \* consume_callback's local `result`
  srvReplies,    \* the replies published, in order
  srvAcked,      \* the delivery tags acknowledged, in order
  srvExit,       \* _exit_requested
  srvConnectAttempts, \* start's local `connect_attempts`
  srvDisconnects, \* the number of times the connection was lost
  srvCalls,      \* the handler methods invoked, in order
  srvTag,        \* the delivery tag of the last delivery
  srvDelivered,  \* the deliveries made to consume_callback, in order
  \* --- Consumer (consume_callback on the messages of its queue)
  conQueue,      \* the events published to the consumer's queue, not yet delivered
  conCur,        \* the delivery being handled by consume_callback
  conPc,         \* the position of the consumer in its callback
  conMessage,    \* consume_callback's local `message`
  conEvents,     \* what the callback did, in order: dispatches and acknowledgements
  conExit,       \* _exit_requested
  conTag,        \* the delivery tag of the last delivery
  conDelivered,  \* the deliveries made to consume_callback, in order
  \* --- RPC client (send and on_response) and the broker between it and a server
  cliPc,         \* "idle" | "publishing" | "waiting": the position inside send
  cliCorrId,     \* self.corr_id
  cliResponse,   \* self.response
  cliCallbackQueue, \* self.callback_queue: the generation of the private reply queue
  cliConnOpen,   \* not self.connection.is_closed
  cliAttempts,   \* send's local `attempts`
  cliNotSent,    \* send's local `not_sent`
  cliSends,      \* the number of sends started
  cliPolls,      \* the calls of process_data_events made by the send in hand
  cliUuids,      \* the number of uuids drawn
  cliDrops,      \* the number of times the connection was lost
  cliResults,    \* what each send returned (or that it raised), in order
  cliSeen,       \* every call of on_response: the reply, the pending id, the effect
  brokerRequests, \* the requests published to the server's queue, unanswered
  cliReplies,    \* the replies waiting in the client's private reply queue
  \* --- Producer (send) and the connection to its broker
  prdPc,         \* "idle" | "publishing": the position inside send
  prdConnOpen,   \* not self.connection.is_closed
  prdChannel,    \* self.channel: its generation, and whether confirm_delivery was called
  prdAttempts,   \* send's local `attempts`
  prdNotSent,    \* send's local `not_sent`
  prdSends,      \* the number of sends started
  prdDrops,      \* the number of times the connection was lost
  prdResults,    \* what each send returned (or that it raised), in order
  prdLog,        \* the publish attempts, sleeps and reconnects of every send
  \* --- Router (_safe_call on its managers)
  rtrManagers,   \* self._managers, in HOOKS order
  rtrReadOnly,   \* self._read_only
  rtrPc,         \* "idle" | "returned"
  rtrRequest,    \* the arguments of the _safe_call in hand
  rtrLast,       \* what that _safe_call did and returned
  \* --- start loop and shutdown of the RPC server and of the Consumer
  stKind,        \* "RPCServer" | "Consumer"
  stPc,          \* the position of start
  stConnectAttempts,\* start's local `connect_attempts`
  stExit,        \* _exit_requested
  stRequested,   \* the kinds of shutdown request made so far
  stLog,         \* the calls on handler, channel and connection, and the successful connects
  stFailed,      \* the failed connect attempts since the last success, with their sleeps
  stSignals,     \* the number of SIGTERMs received
  stLost,        \* the number of times the connection was lost
  \* --- Router construction, initialize, finalize and the with block
  rcHooks,       \* the HOOKS list of the configuration
  rcManagers,    \* self._managers
  rcPc,          \* "new" | "ready" | "exit_1" | "closed"
  rcLog,         \* the calls on the hooks' objects and on the Router
  rcScope,       \* whether the Router is the subject of a with block
  \* --- client facade (BaseClient) over a transport's send
  fcSent,        \* the requests handed to the transport's send, in order
  fcLast,        \* what the last facade call did
  \* --- configuration (load_file_based_config, get_config)
  cfFile,        \* the METAROOT mapping of the configuration file
  cfEnv,         \* the METAROOT_MQ* variables set in the environment
  cfAuto,        \* the module global `auto`
  cfPc,          \* "unloaded" | "loaded"
  cfGot,         \* what the last get_config returned
  \* --- Result: the transport format and back (api/result.py)
  tfPc,
  tfResult,
  tfObj,
  tfBack,
  \* --- RPCClient.close and Producer.close on the endpoint's connection
  clKind,
  clConnection,
  clLog

dispVars == <<dHandler, dMessage, dOutcome, dPc, dRet>>

srvVars == <<srvQueue, srvCur, srvPc, srvMessage, srvResult, srvReplies,
             srvAcked, srvExit, srvConnectAttempts, srvDisconnects, srvCalls,
             srvTag, srvDelivered>>

conVars == <<conQueue, conCur, conPc, conMessage, conEvents, conExit, conTag,
             conDelivered>>

cliVars == <<cliPc, cliCorrId, cliResponse, cliCallbackQueue, cliConnOpen,
             cliAttempts, cliNotSent, cliSends, cliPolls, cliUuids, cliDrops,
             cliResults, cliSeen, brokerRequests, cliReplies>>

prdVars == <<prdPc, prdConnOpen, prdChannel, prdAttempts, prdNotSent, prdSends,
             prdDrops, prdResults, prdLog>>

rtrVars == <<rtrManagers, rtrReadOnly, rtrPc, rtrRequest, rtrLast>>

stVars == <<stKind, stPc, stConnectAttempts, stExit, stRequested, stLog, stFailed, stSignals, stLost>>

rcVars == <<rcHooks, rcManagers, rcPc, rcLog, rcScope>>

fcVars == <<fcSent, fcLast>>

cfVars == <<cfFile, cfEnv, cfAuto, cfPc, cfGot>>

tfVars == <<tfPc, tfResult, tfObj, tfBack>>

clVars == <<clKind, clConnection, clLog>>

vars == <<dispVars, srvVars, conVars, cliVars, prdVars, rtrVars, stVars, rcVars, fcVars, cfVars, tfVars, clVars>>

\* What each component leaves alone.
dispOthers == <<srvVars, conVars, cliVars, prdVars, rtrVars, stVars, rcVars, fcVars, cfVars, tfVars, clVars>>

srvOthers == <<dispVars, conVars, cliVars, prdVars, rtrVars, stVars, rcVars, fcVars, cfVars, tfVars, clVars>>

conOthers == <<dispVars, srvVars, cliVars, prdVars, rtrVars, stVars, rcVars, fcVars, cfVars, tfVars, clVars>>

cliOthers == <<dispVars, srvVars, conVars, prdVars, rtrVars, stVars, rcVars, fcVars, cfVars, tfVars, clVars>>

prdOthers == <<dispVars, srvVars, conVars, cliVars, rtrVars, stVars, rcVars, fcVars, cfVars, tfVars, clVars>>

rtrOthers == <<dispVars, srvVars, conVars, cliVars, prdVars, stVars, rcVars, fcVars, cfVars, tfVars, clVars>>

stOthers == <<dispVars, srvVars, conVars, cliVars, prdVars, rtrVars, rcVars, fcVars, cfVars, tfVars, clVars>>

rcOthers == <<dispVars, srvVars, conVars, cliVars, prdVars, rtrVars, stVars, fcVars, cfVars, tfVars, clVars>>

fcOthers == <<dispVars, srvVars, conVars, cliVars, prdVars, rtrVars, stVars, rcVars, cfVars, tfVars, clVars>>

cfOthers == <<dispVars, srvVars, conVars, cliVars, prdVars, rtrVars, stVars, rcVars, fcVars, tfVars, clVars>>

----------------------------------------------------------------------------
(* Python values as they come out of yaml.safe_load.                       *)

PyNone == [k |-> "none"]
PyInt(n) == [k |-> "int", v |-> n]
PyStr(s) == [k |-> "str", v |-> s]
PyList(q) == [k |-> "list", v |-> q]
PyMap(f) == [k |-> "map", v |-> f]

\* The characters of the strings the model tests with Python's `in`.
CharsOf(s) ==
  CASE s = "action" ->
         <<"a","c","t","i","o","n">>
    [] s = "CLOSE_IMMEDIATELY" ->
         <<"C","L","O","S","E","_","I","M","M","E","D","I","A","T","E","L","Y">>
    [] s = "hello" ->
         <<"h","e","l","l","o">>
    [] s = "reaction" ->
         <<"r","e","a","c","t","i","o","n">>
    [] s = "add" ->
         <<"a","d","d">>
    [] s = "delete" ->
         <<"d","e","l","e","t","e">>
    [] s = "associate" ->
         <<"a","s","s","o","c","i","a","t","e">>
    [] s = "update" ->
         <<"u","p","d","a","t","e">>
    [] s = "set" ->
         <<"s","e","t">>
    [] s = "add_group" ->
         <<"a","d","d","_","g","r","o","u","p">>
    [] s = "get_group" ->
         <<"g","e","t","_","g","r","o","u","p">>
    [] s = "list_groups" ->
         <<"l","i","s","t","_","g","r","o","u","p","s">>
    [] s = "get_members" ->
         <<"g","e","t","_","m","e","m","b","e","r","s">>
    [] s = "update_group" ->
         <<"u","p","d","a","t","e","_","g","r","o","u","p">>
    [] s = "delete_group" ->
         <<"d","e","l","e","t","e","_","g","r","o","u","p">>
    [] s = "exists_group" ->
         <<"e","x","i","s","t","s","_","g","r","o","u","p">>
    [] s = "add_user" ->
         <<"a","d","d","_","u","s","e","r">>
    [] s = "update_user" ->
         <<"u","p","d","a","t","e","_","u","s","e","r">>
    [] s = "get_user" ->
         <<"g","e","t","_","u","s","e","r">>
    [] s = "list_users" ->
         <<"l","i","s","t","_","u","s","e","r","s">>
    [] s = "validate_users" ->
         <<"v","a","l","i","d","a","t","e","_","u","s","e","r","s">>
    [] s = "roles_user" ->
         <<"r","o","l","e","s","_","u","s","e","r">>
    [] s = "delete_user" ->
         <<"d","e","l","e","t","e","_","u","s","e","r">>
    [] s = "exists_user" ->
         <<"e","x","i","s","t","s","_","u","s","e","r">>
    [] s = "set_user_default_group" ->
         <<"s","e","t","_","u","s","e","r","_","d","e","f","a","u","l","t","_","g","r","o","u","p">>
    [] s = "associate_user_to_group" ->
         <<"a","s","s","o","c","i","a","t","e","_","u","s","e","r","_","t","o","_","g","r","o","u","p">>
    [] s = "disassociate_user_from_group" ->
         <<"d","i","s","a","s","s","o","c","i","a","t","e","_","u","s","e","r","_","f","r","o","m","_","g","r","o","u","p">>
    [] s = "disassociate_users_from_group" ->
         <<"d","i","s","a","s","s","o","c","i","a","t","e","_","u","s","e","r","s","_","f","r","o","m","_","g","r","o","u","p">>
    [] s = "reset_cache" ->
         <<"r","e","s","e","t","_","c","a","c","h","e">>

\* Python's `needle in hay` for two strings: substring containment.
Contains(hay, needle) ==
  LET h == CharsOf(hay)
      n == CharsOf(needle)
  IN \E i \in 1..(Len(h) - Len(n) + 1) : SubSeq(h, i, i + Len(n) - 1) = n

\* Python's `key in x` for a string key: None and numbers are not iterable
\* (TypeError), a string is searched for the substring, a list for the
\* element, a mapping for the key.
PyIterable(x) == x.k \in {"str", "list", "map"}

PyIn(key, x) ==
  CASE x.k = "str" -> Contains(x.v, key)
    [] x.k = "list" -> \E i \in DOMAIN x.v : x.v[i] = PyStr(key)
    [] x.k = "map" -> key \in DOMAIN x.v
    [] OTHER -> FALSE

----------------------------------------------------------------------------
(* Result and its wire form.                                               *)

Result(status, response) == [status |-> status, response |-> response]

is_error(r) == r.status # 0

is_success(r) == r.status = 0

to_transport_format(r) == [status |-> r.status, response |-> r.response]

\* from_transport_format leaving the response out.
from_transport_format_statusOnly(obj) == Result(obj.status, PyNone)

from_transport_format(obj) == Result(obj.status, obj.response)

get_error_response(status) == [status |-> status, response |-> PyNone]

----------------------------------------------------------------------------
(* Handler objects as getattr and inspect.signature see them: every        *)
(* attribute is either a bound method with its declared parameters (the    *)
(* receiver excluded) or a plain attribute.                                *)

Method(params) == [callable |-> TRUE, params |-> params]

Attribute == [callable |-> FALSE, params |-> <<>>]

\* The handler of the RPC integration test.
OrderedHandler ==
  [cls |-> "OrderedHandler",
   attrs |-> [n \in {"echo", "initialize", "finalize"} |->
                IF n = "echo" THEN Method(<<"message">>) ELSE Method(<<>>)]]

\* The Router as a handler: its public methods, its lifecycle methods and
\* the instance attributes set by its constructor.
RouterHandler ==
  [cls |-> "Router",
   attrs |-> [n \in {"add_group", "get_group", "list_groups",
                     "set_user_default_group", "initialize", "finalize",
                     "_managers", "_read_only"} |->
                CASE n = "add_group" -> Method(<<"group_atts", "managers">>)
                  [] n = "get_group" -> Method(<<"name", "managers">>)
                  [] n = "list_groups" -> Method(<<"managers">>)
                  [] n = "set_user_default_group" ->
                       Method(<<"user_name", "group_name", "managers">>)
                  [] n \in {"initialize", "finalize"} -> Method(<<>>)
                  [] OTHER -> Attribute]]

Handlers == {OrderedHandler, RouterHandler}

\* What a handler method does once it is invoked: it returns a Result, it
\* raises, or it returns something that is no Result (None, as the
\* lifecycle methods do).
StatusValues == {0, 1}

HandlerOutcomes ==
  {[k |-> "result", r |-> Result(s, resp)] :
     s \in StatusValues, resp \in {PyNone, PyStr("hello")}}
  \cup {[k |-> "raise"], [k |-> "nonresult"]}

\* The outcome of a call of call_method: it returns a wire mapping or lets
\* an exception escape; calls lists the handler methods it invoked.
CallRet(ret, calls) == [exc |-> "none", ret |-> ret, calls |-> calls]

CallRaise(e) == [exc |-> e, calls |-> <<>>]

\* RPCServer.call_method without its two envelope checks: a missing action
\* is a KeyError and a missing parameter is passed as None.
RPCServer_call_method_unchecked(obj, message, outcome) ==
  IF message.k # "map" \/ ~PyIn("action", message) THEN CallRaise("TypeError")
  ELSE LET action == message.v["action"] IN
    IF action.k # "str" THEN CallRaise("TypeError")
    ELSE IF action.v \notin DOMAIN obj.attrs
      THEN CallRet(get_error_response(451), <<>>)
    ELSE LET method == obj.attrs[action.v] IN
      IF ~method.callable THEN CallRaise("TypeError")
      ELSE LET args == [i \in DOMAIN method.params |->
                          IF method.params[i] \in DOMAIN message.v
                          THEN message.v[method.params[i]] ELSE PyNone]
               call == [name |-> action.v, args |-> args]
           IN IF outcome.k = "result"
              THEN CallRet(to_transport_format(outcome.r), <<call>>)
              ELSE CallRet(get_error_response(455), <<call>>)

\* RPCServer.call_method without the try around the method call: what the
\* handler raises leaves call_method.
RPCServer_call_method_reraising(obj, message, outcome) ==
  IF ~PyIterable(message) THEN CallRaise("TypeError")
  ELSE IF ~PyIn("action", message) THEN CallRet(get_error_response(450), <<>>)
  ELSE IF message.k # "map" THEN CallRaise("TypeError")
  ELSE LET action == message.v["action"] IN
    IF action.k # "str" THEN CallRaise("TypeError")
    ELSE IF action.v \notin DOMAIN obj.attrs
      THEN CallRet(get_error_response(451), <<>>)
    ELSE LET method == obj.attrs[action.v] IN
      IF ~method.callable THEN CallRaise("TypeError")
      ELSE IF \E i \in DOMAIN method.params : method.params[i] \notin DOMAIN message.v
        THEN CallRet(get_error_response(452), <<>>)
      ELSE LET args == [i \in DOMAIN method.params |-> message.v[method.params[i]]]
               call == [name |-> action.v, args |-> args]
           IN IF outcome.k = "result"
              THEN CallRet(to_transport_format(outcome.r), <<call>>)
              ELSE [exc |-> "Exception", calls |-> <<call>>]

RPCServer_call_method(obj, message, outcome) ==
  \* 'action' not in message: TypeError for a value that is not iterable
  IF ~PyIterable(message) THEN CallRaise("TypeError")
  ELSE IF ~PyIn("action", message) THEN CallRet(get_error_response(450), <<>>)
  \* message['action'] on a string or a list: TypeError
  ELSE IF message.k # "map" THEN CallRaise("TypeError")
  ELSE LET action == message.v["action"] IN
    \* getattr(obj, name): the name must be a string
    IF action.k # "str" THEN CallRaise("TypeError")
    ELSE IF action.v \notin DOMAIN obj.attrs
      THEN CallRet(get_error_response(451), <<>>)
    ELSE LET method == obj.attrs[action.v] IN
      \* inspect.signature of an attribute that is not callable: TypeError
      IF ~method.callable THEN CallRaise("TypeError")
      ELSE IF \E i \in DOMAIN method.params : method.params[i] \notin DOMAIN message.v
        THEN CallRet(get_error_response(452), <<>>)
      ELSE LET args == [i \in DOMAIN method.params |-> message.v[method.params[i]]]
               call == [name |-> action.v, args |-> args]
           IN IF outcome.k = "result"
              THEN CallRet(to_transport_format(outcome.r), <<call>>)
              ELSE CallRet(get_error_response(455), <<call>>)

\* Consumer.call_method passing the arguments in reverse order.
Consumer_call_method_reversed(obj, message, outcome) ==
  IF ~PyIterable(message) THEN CallRaise("TypeError")
  ELSE IF ~PyIn("action", message) THEN CallRet(get_error_response(450), <<>>)
  ELSE IF message.k # "map" THEN CallRaise("TypeError")
  ELSE LET action == message.v["action"] IN
    IF action.k # "str" THEN CallRaise("TypeError")
    ELSE IF action.v \notin DOMAIN obj.attrs
      THEN CallRet(get_error_response(451), <<>>)
    ELSE LET method == obj.attrs[action.v] IN
      IF ~method.callable THEN CallRaise("TypeError")
      ELSE IF \E i \in DOMAIN method.params : method.params[i] \notin DOMAIN message.v
        THEN CallRet(get_error_response(452), <<>>)
      ELSE LET n == Len(method.params)
               args == [i \in DOMAIN method.params |->
                          message.v[method.params[n + 1 - i]]]
               call == [name |-> action.v, args |-> args]
           IN IF outcome.k = "result"
              THEN CallRet(to_transport_format(outcome.r), <<call>>)
              ELSE CallRet(get_error_response(455), <<call>>)

Consumer_call_method(obj, message, outcome) ==
  IF ~PyIterable(message) THEN CallRaise("TypeError")
  ELSE IF ~PyIn("action", message) THEN CallRet(get_error_response(450), <<>>)
  ELSE IF message.k # "map" THEN CallRaise("TypeError")
  ELSE LET action == message.v["action"] IN
    IF action.k # "str" THEN CallRaise("TypeError")
    ELSE IF action.v \notin DOMAIN obj.attrs
      THEN CallRet(get_error_response(451), <<>>)
    ELSE LET method == obj.attrs[action.v] IN
      IF ~method.callable THEN CallRaise("TypeError")
      ELSE IF \E i \in DOMAIN method.params : method.params[i] \notin DOMAIN message.v
        THEN CallRet(get_error_response(452), <<>>)
      ELSE LET args == [i \in DOMAIN method.params |-> message.v[method.params[i]]]
               call == [name |-> action.v, args |-> args]
           IN IF outcome.k = "result"
              THEN CallRet(to_transport_format(outcome.r), <<call>>)
              ELSE CallRet(get_error_response(455), <<call>>)

----------------------------------------------------------------------------
(* The decoded messages the dispatcher is applied to.                      *)

MessageKeys == {"action", "message", "group_atts", "managers", "extra"}

ValuesOf(key) ==
  CASE key = "action" ->
         {PyStr("echo"), PyStr("add_group"), PyStr("list_groups"),
          PyStr("nosuch"), PyStr("_read_only"), PyInt(5)}
    [] key = "message" -> {PyStr("hello")}
    [] key = "group_atts" -> {PyMap([name |-> PyStr("g")])}
    [] key = "managers" -> {PyStr("any")}
    [] OTHER -> {PyInt(7)}

AllValues == UNION {ValuesOf(key) : key \in MessageKeys}

Mappings ==
  {PyMap(f) : f \in {g \in UNION {[S -> AllValues] : S \in SUBSET MessageKeys} :
                       \A key \in DOMAIN g : g[key] \in ValuesOf(key)}}

NonMappings ==
  {PyNone, PyInt(5), PyStr("hello"), PyStr("reaction"),
   PyList(<<PyStr("hello")>>), PyList(<<PyStr("action")>>)}

Messages == Mappings \cup NonMappings

----------------------------------------------------------------------------
(* SpecDispatch: call_method of the RPC server and of the Consumer applied *)
(* to every handler, message and handler behaviour.                        *)

DispOff ==
  /\ dHandler = OrderedHandler
  /\ dMessage = PyNone
  /\ dOutcome = [k |-> "raise"]
  /\ dPc = "off"
  /\ dRet = [exc |-> "pending"]

DispInit ==
  /\ dHandler \in Handlers
  /\ dMessage \in Messages
  /\ dOutcome \in HandlerOutcomes
  /\ dPc = "input"
  /\ dRet = [exc |-> "pending"]

ServerDispatch ==
  /\ dPc = "input"
  /\ dRet' = RPCServer_call_method(dHandler, dMessage, dOutcome)
  /\ dPc' = "server"
  /\ UNCHANGED <<dHandler, dMessage, dOutcome>>
  /\ UNCHANGED dispOthers

ConsumerDispatch ==
  /\ dPc = "input"
  /\ dRet' = Consumer_call_method(dHandler, dMessage, dOutcome)
  /\ dPc' = "consumer"
  /\ UNCHANGED <<dHandler, dMessage, dOutcome>>
  /\ UNCHANGED dispOthers

----------------------------------------------------------------------------
(* The RPC server: consume_callback, one step per statement that the       *)
(* broker can observe (decode, dispatch, publish, acknowledge).            *)

MaxRequests == 2

\* A message body is a YAML document of a value, or bytes that are no YAML.
Yaml(value) == [wellformed |-> TRUE, doc |-> value]

BadYaml == [wellformed |-> FALSE]

\* yaml.safe_load: the value of the document, or a YAMLError.
safe_load(body) ==
  IF body.wellformed THEN [err |-> FALSE, value |-> body.doc] ELSE [err |-> TRUE]

\* yaml.safe_dump of a value.
safe_dump(value) == Yaml(value)

\* Python's == between two decoded values.
PyEq(a, b) == a.k = b.k /\ a = b

CLOSE_IMMEDIATELY == PyStr("CLOSE_IMMEDIATELY")

ServerMessages ==
  {CLOSE_IMMEDIATELY, PyNone, PyInt(5), PyStr("hello"),
   PyMap([action |-> PyStr("echo"), message |-> PyStr("hello")]),
   PyMap([action |-> PyStr("echo")]),
   PyMap([message |-> PyStr("hello")]),
   PyMap([action |-> PyStr("nosuch")])}

ServerBodies == {BadYaml} \cup {Yaml(m) : m \in ServerMessages}

\* The properties of the requests: the reply queue and the correlation id
\* of a request of one client and of a request of another.
RequestProps ==
  {[reply_to |-> "amq.gen-1", correlation_id |-> "uuid-1"],
   [reply_to |-> "amq.gen-2", correlation_id |-> "uuid-2"]}

NoDelivery == [tag |-> 0]

SrvOff ==
  /\ srvQueue = <<>>
  /\ srvCur = NoDelivery
  /\ srvPc = "off"
  /\ srvMessage = PyNone
  /\ srvResult = Result(0, PyNone)
  /\ srvReplies = <<>>
  /\ srvAcked = <<>>
  /\ srvExit = FALSE
  /\ srvConnectAttempts = 1
  /\ srvDisconnects = 0
  /\ srvCalls = <<>>
  /\ srvTag = 0
  /\ srvDelivered = <<>>

\* The server after start() has connected and entered start_consuming.
\* Under SpecServer every later connect() succeeds.
SrvInit ==
  /\ srvQueue = <<>>
  /\ srvCur = NoDelivery
  /\ srvPc = "consuming"
  /\ srvMessage = PyNone
  /\ srvResult = Result(0, PyNone)
  /\ srvReplies = <<>>
  /\ srvAcked = <<>>
  /\ srvExit = FALSE
  /\ srvConnectAttempts = 1
  /\ srvDisconnects = 0
  /\ srvCalls = <<>>
  /\ srvTag = 0
  /\ srvDelivered = <<>>

\* A client publishes a request to the server's queue.
ClientPublish(body, props) ==
  /\ srvTag + Len(srvQueue) < MaxRequests
  /\ srvQueue' = Append(srvQueue, [body |-> body, reply_to |-> props.reply_to,
                                  correlation_id |-> props.correlation_id])
  /\ UNCHANGED <<srvCur, srvPc, srvMessage, srvResult, srvReplies, srvAcked,
                 srvExit, srvConnectAttempts, srvDisconnects, srvCalls,
                 srvTag, srvDelivered>>
  /\ UNCHANGED srvOthers

\* consume_callback as the Consumer starts it: an undecodable body is
\* acknowledged at once and the callback returns.
DeliverAckOnDecodeError ==
  /\ srvPc = "consuming"
  /\ srvQueue # <<>>
  /\ LET loaded == safe_load(Head(srvQueue).body) IN
       /\ srvCur' = [tag |-> srvTag + 1, body |-> Head(srvQueue).body,
                     reply_to |-> Head(srvQueue).reply_to,
                     correlation_id |-> Head(srvQueue).correlation_id]
       /\ srvTag' = srvTag + 1
       /\ srvDelivered' = Append(srvDelivered, srvCur')
       /\ srvQueue' = Tail(srvQueue)
       /\ IF loaded.err
          THEN /\ srvResult' = get_error_response(450)
               /\ srvMessage' = PyNone
               /\ srvAcked' = Append(srvAcked, srvTag + 1)
               /\ srvPc' = "consuming"
          ELSE /\ srvResult' = Result(0, PyNone)
               /\ srvMessage' = loaded.value
               /\ srvAcked' = srvAcked
               /\ srvPc' = "decoded"
  /\ UNCHANGED <<srvReplies, srvExit, srvConnectAttempts, srvDisconnects,
                 srvCalls>>
  /\ UNCHANGED srvOthers

\* The broker delivers the next message (prefetch 1: only when the callback
\* is not running); consume_callback decodes the body.
Deliver ==
  /\ srvPc = "consuming"
  /\ srvQueue # <<>>
  /\ LET loaded == safe_load(Head(srvQueue).body) IN
       /\ srvCur' = [tag |-> srvTag + 1, body |-> Head(srvQueue).body,
                     reply_to |-> Head(srvQueue).reply_to,
                     correlation_id |-> Head(srvQueue).correlation_id]
       /\ srvTag' = srvTag + 1
       /\ srvDelivered' = Append(srvDelivered, srvCur')
       /\ srvQueue' = Tail(srvQueue)
       /\ IF loaded.err
          THEN /\ srvResult' = get_error_response(450)
               /\ srvMessage' = PyNone
          ELSE /\ srvResult' = Result(0, PyNone)
               /\ srvMessage' = loaded.value
       /\ srvPc' = "decoded"
  /\ UNCHANGED <<srvReplies, srvAcked, srvExit, srvConnectAttempts,
                 srvDisconnects, srvCalls>>
  /\ UNCHANGED srvOthers

\* The reply consume_callback publishes for the delivery it is handling.
ReplyFor(delivery, result) ==
  [routing_key |-> delivery.reply_to,
   correlation_id |-> delivery.correlation_id,
   body |-> safe_dump(result),
   tag |-> delivery.tag]

\* CLOSE_IMMEDIATELY: the reply is published ...
CloseReply ==
  /\ srvPc = "decoded"
  /\ PyEq(srvMessage, CLOSE_IMMEDIATELY)
  /\ srvReplies' = Append(srvReplies,
                          ReplyFor(srvCur, Result(0, PyStr("SHUTDOWN_INIT"))))
  /\ srvPc' = "close_published"
  /\ UNCHANGED <<srvQueue, srvCur, srvMessage, srvResult, srvAcked, srvExit,
                 srvConnectAttempts, srvDisconnects, srvCalls, srvTag,
                 srvDelivered>>
  /\ UNCHANGED srvOthers

\* CLOSE_IMMEDIATELY acknowledged without the exit flag and without
\* stop_consuming: the callback returns to the consume loop.
CloseAck_keepsConsuming ==
  /\ srvPc = "close_published"
  /\ srvAcked' = Append(srvAcked, srvCur.tag)
  /\ srvPc' = "consuming"
  /\ UNCHANGED <<srvQueue, srvCur, srvMessage, srvResult, srvReplies, srvExit,
                 srvConnectAttempts, srvDisconnects, srvCalls, srvTag,
                 srvDelivered>>
  /\ UNCHANGED srvOthers

\* ... then the message is acknowledged, the exit flag is set and
\* stop_consuming makes start_consuming return.
CloseAck ==
  /\ srvPc = "close_published"
  /\ srvAcked' = Append(srvAcked, srvCur.tag)
  /\ srvExit' = TRUE
  /\ srvPc' = "stopped"
  /\ UNCHANGED <<srvQueue, srvCur, srvMessage, srvResult, srvReplies,
                 srvConnectAttempts, srvDisconnects, srvCalls, srvTag,
                 srvDelivered>>
  /\ UNCHANGED srvOthers

\* The handler method is applied if decoding succeeded. An exception that
\* call_method lets escape leaves consume_callback and start_consuming;
\* start() logs it and leaves its loop.
Dispatch(outcome) ==
  /\ srvPc = "decoded"
  /\ ~PyEq(srvMessage, CLOSE_IMMEDIATELY)
  /\ IF srvResult.status = 0
     THEN LET r == RPCServer_call_method(OrderedHandler, srvMessage, outcome) IN
            /\ srvCalls' = srvCalls \o
                 [i \in DOMAIN r.calls |-> [tag |-> srvCur.tag,
                                            name |-> r.calls[i].name,
                                            outcome |-> outcome.k]]
            /\ IF r.exc = "none"
               THEN /\ srvResult' = r.ret
                    /\ srvPc' = "dispatched"
               ELSE /\ srvPc' = "failed"
                    /\ UNCHANGED srvResult
     ELSE /\ srvPc' = "dispatched"
          /\ UNCHANGED <<srvResult, srvCalls>>
  /\ UNCHANGED <<srvQueue, srvCur, srvMessage, srvReplies, srvAcked, srvExit,
                 srvConnectAttempts, srvDisconnects, srvTag, srvDelivered>>
  /\ UNCHANGED srvOthers

\* The RPC response is published to the caller's private queue ...
Reply ==
  /\ srvPc = "dispatched"
  /\ srvReplies' = Append(srvReplies, ReplyFor(srvCur, srvResult))
  /\ srvPc' = "published"
  /\ UNCHANGED <<srvQueue, srvCur, srvMessage, srvResult, srvAcked, srvExit,
                 srvConnectAttempts, srvDisconnects, srvCalls, srvTag,
                 srvDelivered>>
  /\ UNCHANGED srvOthers

\* ... then the message is acknowledged and the callback returns.
Ack ==
  /\ srvPc = "published"
  /\ srvAcked' = Append(srvAcked, srvCur.tag)
  /\ srvPc' = "consuming"
  /\ UNCHANGED <<srvQueue, srvCur, srvMessage, srvResult, srvReplies, srvExit,
                 srvConnectAttempts, srvDisconnects, srvCalls, srvTag,
                 srvDelivered>>
  /\ UNCHANGED srvOthers

\* The consume loop of start().
MaxDisconnects == 1

\* while connect_attempts < 30 and not self._exit_requested
ConnectLimit == 30

\* The connection is lost while the server waits for a message:
\* start_consuming raises ConnectionClosed, which start() logs before it
\* goes round its loop again.
ConnectionLost ==
  /\ srvPc = "consuming"
  /\ srvDisconnects < MaxDisconnects
  /\ srvDisconnects' = srvDisconnects + 1
  /\ srvPc' = "connecting"
  /\ UNCHANGED <<srvQueue, srvCur, srvMessage, srvResult, srvReplies, srvAcked,
                 srvExit, srvConnectAttempts, srvCalls, srvTag, srvDelivered>>
  /\ UNCHANGED srvOthers

\* One iteration of the loop in which connect() succeeds: the count of
\* attempts starts again and start_consuming is entered.
ConnectOk ==
  /\ srvPc = "connecting"
  /\ srvConnectAttempts < ConnectLimit /\ ~srvExit
  /\ srvConnectAttempts' = 1
  /\ srvPc' = "consuming"
  /\ UNCHANGED <<srvQueue, srvCur, srvMessage, srvResult, srvReplies, srvAcked,
                 srvExit, srvDisconnects, srvCalls, srvTag, srvDelivered>>
  /\ UNCHANGED srvOthers

\* start() returns: start_consuming returned after stop_consuming and the
\* loop condition finds the exit flag set, or the connect attempts are
\* spent, or an exception other than a closed connection left
\* start_consuming.
StartReturns ==
  /\ \/ srvPc = "stopped" /\ ~(srvConnectAttempts < ConnectLimit /\ ~srvExit)
     \/ srvPc = "connecting" /\ ~(srvConnectAttempts < ConnectLimit /\ ~srvExit)
     \/ srvPc = "failed"
  /\ srvPc' = "returned"
  /\ UNCHANGED <<srvQueue, srvCur, srvMessage, srvResult, srvReplies, srvAcked,
                 srvExit, srvConnectAttempts, srvDisconnects, srvCalls, srvTag,
                 srvDelivered>>
  /\ UNCHANGED srvOthers

----------------------------------------------------------------------------
(* The Consumer: consume_callback, one step per statement that the broker  *)
(* can observe (decode, dispatch, acknowledge).                            *)

MaxEvents == 2

ConOff ==
  /\ conQueue = <<>>
  /\ conCur = NoDelivery
  /\ conPc = "off"
  /\ conMessage = PyNone
  /\ conEvents = <<>>
  /\ conExit = FALSE
  /\ conTag = 0
  /\ conDelivered = <<>>

\* The Consumer after start() has connected and entered start_consuming.
ConInit ==
  /\ conQueue = <<>>
  /\ conCur = NoDelivery
  /\ conPc = "consuming"
  /\ conMessage = PyNone
  /\ conEvents = <<>>
  /\ conExit = FALSE
  /\ conTag = 0
  /\ conDelivered = <<>>

\* A producer publishes an event to the consumer's queue.
ProducerPublish(body) ==
  /\ conPc # "off"
  /\ conTag + Len(conQueue) < MaxEvents
  /\ conQueue' = Append(conQueue, [body |-> body])
  /\ UNCHANGED <<conCur, conPc, conMessage, conEvents, conExit, conTag,
                 conDelivered>>
  /\ UNCHANGED conOthers

ConAcked(tag) == [e |-> "ack", tag |-> tag]

ConDispatched(tag, calls, outcome) ==
  [e |-> "dispatch", tag |-> tag, calls |-> calls, outcome |-> outcome.k]

\* The broker delivers the next message (prefetch 1); consume_callback
\* decodes the body. A body that is no YAML is acknowledged and the
\* callback returns.
ConDeliver ==
  /\ conPc = "consuming"
  /\ conQueue # <<>>
  /\ LET loaded == safe_load(Head(conQueue).body) IN
       /\ conCur' = [tag |-> conTag + 1, body |-> Head(conQueue).body]
       /\ conTag' = conTag + 1
       /\ conDelivered' = Append(conDelivered, conCur')
       /\ conQueue' = Tail(conQueue)
       /\ IF loaded.err
          THEN /\ conEvents' = Append(conEvents, ConAcked(conTag + 1))
               /\ conPc' = "consuming"
               /\ UNCHANGED conMessage
          ELSE /\ conMessage' = loaded.value
               /\ conPc' = "decoded"
               /\ UNCHANGED conEvents
  /\ UNCHANGED conExit
  /\ UNCHANGED conOthers

\* CLOSE_IMMEDIATELY: the message is acknowledged, the exit flag is set and
\* consuming stops.
ConClose ==
  /\ conPc = "decoded"
  /\ PyEq(conMessage, CLOSE_IMMEDIATELY)
  /\ conEvents' = Append(conEvents, ConAcked(conCur.tag))
  /\ conExit' = TRUE
  /\ conPc' = "stopped"
  /\ UNCHANGED <<conQueue, conCur, conMessage, conTag, conDelivered>>
  /\ UNCHANGED conOthers

\* The handler method is applied; the wire mapping call_method returns is
\* dropped. An exception that call_method lets escape leaves
\* consume_callback and start_consuming; start() leaves its loop.
ConDispatch(outcome) ==
  /\ conPc = "decoded"
  /\ ~PyEq(conMessage, CLOSE_IMMEDIATELY)
  /\ LET r == Consumer_call_method(OrderedHandler, conMessage, outcome) IN
       IF r.exc = "none"
       THEN /\ conEvents' = Append(conEvents,
                                   ConDispatched(conCur.tag, r.calls, outcome))
            /\ conPc' = "dispatched"
       ELSE /\ conPc' = "failed"
            /\ UNCHANGED conEvents
  /\ UNCHANGED <<conQueue, conCur, conMessage, conExit, conTag, conDelivered>>
  /\ UNCHANGED conOthers

\* The message is acknowledged and the callback returns.
ConAck ==
  /\ conPc = "dispatched"
  /\ conEvents' = Append(conEvents, ConAcked(conCur.tag))
  /\ conPc' = "consuming"
  /\ UNCHANGED <<conQueue, conCur, conMessage, conExit, conTag, conDelivered>>
  /\ UNCHANGED conOthers

----------------------------------------------------------------------------
(* The RPC client: send (one step per loop iteration) and on_response,     *)
(* with the broker, a replying server and connection loss as environment.  *)

MaxSends == 2

MaxDrops == 1

\* while not_sent and attempts < 10
PublishLimit == 10

\* while self.response is None and attempts < 36
PollLimit == 36

\* None, for self.corr_id and self.response.
None == <<>>

\* str(uuid.uuid4()) returning the same id on every call.
uuid4_reused(n) == <<1>>

\* str(uuid.uuid4()): the n-th draw is a fresh id.
uuid4(n) == <<n>>

\* on_response storing every reply.
on_response_unchecked(corr_id, response, correlation_id, body) == <<body>>

\* on_response: the new value of self.response.
on_response(corr_id, response, correlation_id, body) ==
  IF corr_id = correlation_id THEN <<body>> ELSE response

\* The objects sent: the k-th send sends the request "hello k", or an
\* object yaml cannot represent.
Request(k) == [serializable |-> TRUE, n |-> k]

Unserializable == [serializable |-> FALSE]

\* The reply a server publishes for a request: to its reply_to, with its
\* correlation_id, carrying the Result of echoing the request.
ReplyTo(request) ==
  [routing_key |-> request.reply_to,
   correlation_id |-> request.correlation_id,
   body |-> safe_dump(to_transport_format(Result(0, PyInt(request.n))))]

\* The Result send decodes from self.response.
Decoded(response) ==
  LET loaded == safe_load(response[1]) IN
    IF loaded.err THEN Result(454, PyNone)
    ELSE from_transport_format(loaded.value)

Returned(r) == [k |-> "result", r |-> r]

Raised == [k |-> "raised"]

CliOff ==
  /\ cliPc = "off"
  /\ cliCorrId = None
  /\ cliResponse = None
  /\ cliCallbackQueue = 0
  /\ cliConnOpen = FALSE
  /\ cliAttempts = 1
  /\ cliNotSent = FALSE
  /\ cliSends = 0
  /\ cliPolls = 0
  /\ cliUuids = 0
  /\ cliDrops = 0
  /\ cliResults = <<>>
  /\ cliSeen = <<>>
  /\ brokerRequests = <<>>
  /\ cliReplies = <<>>

\* The client after __init__ and a successful connect().
CliInit ==
  /\ cliPc = "idle"
  /\ cliCorrId = None
  /\ cliResponse = None
  /\ cliCallbackQueue = 1
  /\ cliConnOpen = TRUE
  /\ cliAttempts = 1
  /\ cliNotSent = FALSE
  /\ cliSends = 0
  /\ cliPolls = 0
  /\ cliUuids = 0
  /\ cliDrops = 0
  /\ cliResults = <<>>
  /\ cliSeen = <<>>
  /\ brokerRequests = <<>>
  /\ cliReplies = <<>>

\* send clearing the response and the correlation id before it serializes
\* the object.
SendStart_resetFirst(obj) ==
  /\ cliPc = "idle"
  /\ cliSends < MaxSends
  /\ cliSends' = cliSends + 1
  /\ cliResponse' = None
  /\ IF ~obj.serializable
     THEN /\ cliResults' = Append(cliResults, Returned(Result(453, PyNone)))
          /\ cliCorrId' = None
          /\ UNCHANGED <<cliPc, cliAttempts, cliNotSent, cliUuids, cliPolls>>
     ELSE /\ cliUuids' = cliUuids + 1
          /\ cliCorrId' = uuid4(cliUuids + 1)
          /\ cliNotSent' = TRUE
          /\ cliAttempts' = 1
          /\ cliPolls' = 0
          /\ cliPc' = "publishing"
          /\ UNCHANGED cliResults
  /\ UNCHANGED <<cliCallbackQueue, cliConnOpen, cliDrops, cliSeen,
                 brokerRequests, cliReplies>>
  /\ UNCHANGED cliOthers

\* send(obj), up to the publish loop: serialization failure returns 453;
\* otherwise the response is cleared and a fresh correlation id is drawn.
SendStart(obj) ==
  /\ cliPc = "idle"
  /\ cliSends < MaxSends
  /\ cliSends' = cliSends + 1
  /\ IF ~obj.serializable
     THEN /\ cliResults' = Append(cliResults, Returned(Result(453, PyNone)))
          /\ UNCHANGED <<cliPc, cliCorrId, cliResponse, cliAttempts, cliNotSent,
                         cliUuids, cliPolls>>
     ELSE /\ cliResponse' = None
          /\ cliUuids' = cliUuids + 1
          /\ cliCorrId' = uuid4(cliUuids + 1)
          /\ cliNotSent' = TRUE
          /\ cliAttempts' = 1
          /\ cliPolls' = 0
          /\ cliPc' = "publishing"
          /\ UNCHANGED cliResults
  /\ UNCHANGED <<cliCallbackQueue, cliConnOpen, cliDrops, cliSeen,
                 brokerRequests, cliReplies>>
  /\ UNCHANGED cliOthers

\* One iteration of the publish loop in which basic_publish returns.
PublishOk ==
  /\ cliPc = "publishing"
  /\ cliNotSent /\ cliAttempts < PublishLimit
  /\ cliConnOpen
  /\ brokerRequests' = Append(brokerRequests,
                              [reply_to |-> cliCallbackQueue,
                               correlation_id |-> cliCorrId,
                               n |-> cliSends])
  /\ cliNotSent' = FALSE
  /\ cliAttempts' = cliAttempts + 1
  /\ UNCHANGED <<cliPc, cliCorrId, cliResponse, cliCallbackQueue, cliConnOpen,
                 cliSends, cliPolls, cliUuids, cliDrops, cliResults, cliSeen,
                 cliReplies>>
  /\ UNCHANGED cliOthers

\* One iteration of the publish loop in which basic_publish raises: after
\* the sleep, a closed connection is reconnected by connect(), which on
\* success declares a new reply queue and clears corr_id and response, and
\* on failure returns False leaving the client as it was.
PublishFails(connected) ==
  /\ cliPc = "publishing"
  /\ cliNotSent /\ cliAttempts < PublishLimit
  /\ IF ~cliConnOpen /\ connected
     THEN /\ cliConnOpen' = TRUE
          /\ cliCallbackQueue' = cliCallbackQueue + 1
          /\ cliCorrId' = None
          /\ cliResponse' = None
     ELSE UNCHANGED <<cliConnOpen, cliCallbackQueue, cliCorrId, cliResponse>>
  /\ cliAttempts' = cliAttempts + 1
  /\ UNCHANGED <<cliPc, cliNotSent, cliSends, cliPolls, cliUuids, cliDrops,
                 cliResults, cliSeen, brokerRequests, cliReplies>>
  /\ UNCHANGED cliOthers

\* The publish loop has ended: 470 if the message was not sent, otherwise
\* the wait loop begins.
PublishEnd ==
  /\ cliPc = "publishing"
  /\ ~(cliNotSent /\ cliAttempts < PublishLimit)
  /\ IF cliNotSent
     THEN /\ cliResults' = Append(cliResults,
               Returned(Result(470, PyStr("Message could not be delivered"))))
          /\ cliPc' = "idle"
          /\ UNCHANGED cliAttempts
     ELSE /\ cliAttempts' = 1
          /\ cliPc' = "waiting"
          /\ UNCHANGED cliResults
  /\ UNCHANGED <<cliCorrId, cliResponse, cliCallbackQueue, cliConnOpen,
                 cliNotSent, cliSends, cliPolls, cliUuids, cliDrops, cliSeen,
                 brokerRequests, cliReplies>>
  /\ UNCHANGED cliOthers

\* process_data_events dispatching the given replies to on_response, one
\* after the other: the resulting self.response and the calls made.
RECURSIVE ProcessDataEvents(_, _, _)
ProcessDataEvents(response, seen, replies) ==
  IF replies = <<>> THEN [response |-> response, seen |-> seen]
  ELSE LET reply == Head(replies)
           after == on_response(cliCorrId, response, reply.correlation_id,
                                reply.body)
       IN ProcessDataEvents(after,
                            Append(seen, [send |-> cliSends,
                                          pending |-> cliCorrId,
                                          correlation_id |-> reply.correlation_id,
                                          body |-> reply.body,
                                          before |-> response,
                                          after |-> after]),
                            Tail(replies))

\* One iteration of the wait loop: process_data_events(time_limit=5)
\* delivers the first n replies of the reply queue. On a closed connection
\* it raises, and the exception leaves send.
Poll(n) ==
  /\ cliPc = "waiting"
  /\ cliResponse = None /\ cliAttempts < PollLimit
  /\ cliPolls' = cliPolls + 1
  /\ IF cliConnOpen
     THEN /\ n <= Len(cliReplies)
          /\ LET done == ProcessDataEvents(cliResponse, cliSeen,
                                           SubSeq(cliReplies, 1, n)) IN
               /\ cliResponse' = done.response
               /\ cliSeen' = done.seen
          /\ cliReplies' = SubSeq(cliReplies, n + 1, Len(cliReplies))
          /\ cliAttempts' = cliAttempts + 1
          /\ UNCHANGED <<cliPc, cliResults>>
     ELSE /\ n = 0
          /\ cliResults' = Append(cliResults, Raised)
          /\ cliPc' = "idle"
          /\ UNCHANGED <<cliResponse, cliSeen, cliReplies, cliAttempts>>
  /\ UNCHANGED <<cliCorrId, cliCallbackQueue, cliConnOpen, cliNotSent,
                 cliSends, cliUuids, cliDrops, brokerRequests>>
  /\ UNCHANGED cliOthers

\* The wait loop has ended: corr_id is cleared; 471 if attempts is 36,
\* otherwise the Result decoded from self.response.
WaitEnd ==
  /\ cliPc = "waiting"
  /\ ~(cliResponse = None /\ cliAttempts < PollLimit)
  /\ cliCorrId' = None
  /\ cliResults' = Append(cliResults,
       IF cliAttempts = PollLimit
       THEN Returned(Result(471, PyStr("Operation timed out waiting for a response")))
       ELSE Returned(Decoded(cliResponse)))
  /\ cliPc' = "idle"
  /\ UNCHANGED <<cliResponse, cliCallbackQueue, cliConnOpen, cliAttempts,
                 cliNotSent, cliSends, cliPolls, cliUuids, cliDrops, cliSeen,
                 brokerRequests, cliReplies>>
  /\ UNCHANGED cliOthers

\* The server answers the oldest request; the reply reaches the client's
\* reply queue if that queue still exists.
ServerReply ==
  /\ brokerRequests # <<>>
  /\ brokerRequests' = Tail(brokerRequests)
  /\ cliReplies' =
       IF cliConnOpen /\ Head(brokerRequests).reply_to = cliCallbackQueue
       THEN Append(cliReplies, ReplyTo(Head(brokerRequests)))
       ELSE cliReplies
  /\ UNCHANGED <<cliPc, cliCorrId, cliResponse, cliCallbackQueue, cliConnOpen,
                 cliAttempts, cliNotSent, cliSends, cliPolls, cliUuids, cliDrops,
                 cliResults, cliSeen>>
  /\ UNCHANGED cliOthers

\* The connection is lost; the broker deletes the exclusive reply queue.
ConnectionDrop ==
  /\ cliConnOpen
  /\ cliDrops < MaxDrops
  /\ cliDrops' = cliDrops + 1
  /\ cliConnOpen' = FALSE
  /\ cliReplies' = <<>>
  /\ UNCHANGED <<cliPc, cliCorrId, cliResponse, cliCallbackQueue, cliAttempts,
                 cliNotSent, cliSends, cliPolls, cliUuids, cliResults, cliSeen,
                 brokerRequests>>
  /\ UNCHANGED cliOthers

----------------------------------------------------------------------------
(* The Producer: send, one step per iteration of its publish loop, with    *)
(* connection loss as environment.                                         *)

\* Producer.connect without channel.confirm_delivery().
Producer_connect_unconfirmed(channel) ==
  [gen |-> channel.gen + 1, confirm |-> FALSE]

\* Producer.connect when it succeeds: a new channel with delivery
\* confirmation turned on.
Producer_connect(channel) == [gen |-> channel.gen + 1, confirm |-> TRUE]

PrdOff ==
  /\ prdPc = "off"
  /\ prdConnOpen = FALSE
  /\ prdChannel = [gen |-> 0, confirm |-> FALSE]
  /\ prdAttempts = 1
  /\ prdNotSent = FALSE
  /\ prdSends = 0
  /\ prdDrops = 0
  /\ prdResults = <<>>
  /\ prdLog = <<>>

\* The Producer after __init__ and connect() (__enter__).
PrdInit ==
  /\ prdPc = "idle"
  /\ prdConnOpen = TRUE
  /\ prdChannel = Producer_connect([gen |-> 0, confirm |-> FALSE])
  /\ prdAttempts = 1
  /\ prdNotSent = FALSE
  /\ prdSends = 0
  /\ prdDrops = 0
  /\ prdResults = <<>>
  /\ prdLog = <<>>

\* What send does, as the broker and the clock see it.
Published(k, attempt, channel, ok) ==
  [send |-> k, e |-> "publish", attempt |-> attempt, confirm |-> channel.confirm,
   ok |-> ok]

Slept(k, attempt, seconds) ==
  [send |-> k, e |-> "sleep", attempt |-> attempt, seconds |-> seconds]

Reconnected(k, attempt, ok) ==
  [send |-> k, e |-> "connect", attempt |-> attempt, ok |-> ok]

\* send(obj), up to the publish loop: serialization failure returns 453.
PrdSendStart(obj) ==
  /\ prdPc = "idle"
  /\ prdSends < MaxSends
  /\ prdSends' = prdSends + 1
  /\ IF ~obj.serializable
     THEN /\ prdResults' = Append(prdResults,
               Returned(Result(453, PyStr("Could not serialize the message as YAML"))))
          /\ UNCHANGED <<prdPc, prdAttempts, prdNotSent>>
     ELSE /\ prdNotSent' = TRUE
          /\ prdAttempts' = 1
          /\ prdPc' = "publishing"
          /\ UNCHANGED prdResults
  /\ UNCHANGED <<prdConnOpen, prdChannel, prdDrops, prdLog>>
  /\ UNCHANGED prdOthers

\* One iteration of the publish loop in which basic_publish returns: with
\* delivery confirmation on, the broker has confirmed the message.
PrdPublishOk ==
  /\ prdPc = "publishing"
  /\ prdNotSent /\ prdAttempts < PublishLimit
  /\ prdConnOpen
  /\ prdLog' = Append(prdLog, Published(prdSends, prdAttempts, prdChannel, TRUE))
  /\ prdNotSent' = FALSE
  /\ prdAttempts' = prdAttempts + 1
  /\ UNCHANGED <<prdPc, prdConnOpen, prdChannel, prdSends, prdDrops, prdResults>>
  /\ UNCHANGED prdOthers

\* One iteration of the publish loop in which basic_publish raises: after
\* the sleep, a closed connection is reconnected by connect(); what
\* connect() raises leaves send.
PrdPublishFails(connected) ==
  /\ prdPc = "publishing"
  /\ prdNotSent /\ prdAttempts < PublishLimit
  /\ LET failed == prdLog \o
         <<Published(prdSends, prdAttempts, prdChannel, FALSE),
           Slept(prdSends, prdAttempts, (prdAttempts - 1) * 5)>>
     IN IF prdConnOpen
        THEN /\ connected
             /\ prdLog' = failed
             /\ prdAttempts' = prdAttempts + 1
             /\ UNCHANGED <<prdPc, prdConnOpen, prdChannel, prdResults>>
        ELSE IF connected
        THEN /\ prdLog' = Append(failed, Reconnected(prdSends, prdAttempts, TRUE))
             /\ prdConnOpen' = TRUE
             /\ prdChannel' = Producer_connect(prdChannel)
             /\ prdAttempts' = prdAttempts + 1
             /\ UNCHANGED <<prdPc, prdResults>>
        ELSE /\ prdLog' = Append(failed, Reconnected(prdSends, prdAttempts, FALSE))
             /\ prdResults' = Append(prdResults, Raised)
             /\ prdPc' = "idle"
             /\ UNCHANGED <<prdConnOpen, prdChannel, prdAttempts>>
  /\ UNCHANGED <<prdNotSent, prdSends, prdDrops>>
  /\ UNCHANGED prdOthers

\* The publish loop has ended: 470 if the message was not sent, else 0.
PrdPublishEnd ==
  /\ prdPc = "publishing"
  /\ ~(prdNotSent /\ prdAttempts < PublishLimit)
  /\ prdResults' = Append(prdResults,
       IF prdNotSent
       THEN Returned(Result(470, PyStr("Message could not be delivered")))
       ELSE Returned(Result(0, PyNone)))
  /\ prdPc' = "idle"
  /\ UNCHANGED <<prdConnOpen, prdChannel, prdAttempts, prdNotSent, prdSends,
                 prdDrops, prdLog>>
  /\ UNCHANGED prdOthers

\* The connection is lost.
PrdConnectionDrop ==
  /\ prdConnOpen
  /\ prdDrops < MaxDrops
  /\ prdDrops' = prdDrops + 1
  /\ prdConnOpen' = FALSE
  /\ UNCHANGED <<prdPc, prdChannel, prdAttempts, prdNotSent, prdSends,
                 prdResults, prdLog>>
  /\ UNCHANGED prdOthers

----------------------------------------------------------------------------
(* The Router: _safe_call over the managers built from HOOKS.              *)

MaxManagers == 2

\* The method names _safe_call is called with.
MethodNames ==
  {"add_group", "get_group", "delete_user", "set_user_default_group",
   "disassociate_user_from_group", "list_users", "reset_cache"}

\* Manager classes: the class name and the methods getattr finds.
Handler1 ==
  [cls |-> "Handler1",
   methods |-> {"add_group", "get_group", "delete_user",
                "set_user_default_group", "disassociate_user_from_group"}]

Handler2 ==
  [cls |-> "Handler2",
   methods |-> {"add_group", "get_group", "delete_user",
                "set_user_default_group", "disassociate_user_from_group"}]

LinuxManager ==
  [cls |-> "LinuxManager", methods |-> {"add_group", "delete_user"}]

ManagerClasses == {Handler1, Handler2, LinuxManager}

\* The manager lists a HOOKS list can produce (a hook may be listed twice).
ManagerLists == UNION {[1..n -> ManagerClasses] : n \in 0..MaxManagers}

\* The targets argument: "any" or a list of class names.
TargetValues ==
  {PyStr("any"), PyList(<<>>), PyList(<<PyStr("Handler1")>>),
   PyList(<<PyStr("Handler2")>>),
   PyList(<<PyStr("Handler2"), PyStr("LinuxManager")>>),
   PyList(<<PyStr("SlurmManager")>>)}

\* What the method of the i-th manager does: it returns a Result with a
\* signed status, or it raises.
ManagerStatuses == {-1, 0, 1}

ManagerOutcomes ==
  {[k |-> "result", status |-> st] : st \in ManagerStatuses} \cup {[k |-> "raise"]}

\* DefaultReactions.occur_in_response_to: an email on error; returns 0.
DefaultReactions_occur_in_response_to(clazz, action, payload, result, n_priors) ==
  [sent |-> is_error(result), ret |-> 0]

\* The read-only gate testing only how the method name starts.
WriteRequested_prefix(method_name) ==
  \E w \in {"add", "delete", "associate", "update", "set"} :
    /\ Len(CharsOf(w)) <= Len(CharsOf(method_name))
    /\ SubSeq(CharsOf(method_name), 1, Len(CharsOf(w))) = CharsOf(w)

\* The read-only gate without the word "set".
WriteRequested_withoutSet(method_name) ==
  \/ Contains(method_name, "add")
  \/ Contains(method_name, "delete")
  \/ Contains(method_name, "associate")
  \/ Contains(method_name, "update")

\* The read-only gate's test of the method name.
WriteRequested(method_name) ==
  \/ Contains(method_name, "add")
  \/ Contains(method_name, "delete")
  \/ Contains(method_name, "associate")
  \/ Contains(method_name, "update")
  \/ Contains(method_name, "set")

\* The targets filter ignoring the targets.
Targeted_all(manager, target_managers) == TRUE

\* The targets filter of the manager loop.
Targeted(manager, target_managers) ==
  \/ PyEq(target_managers, PyStr("any"))
  \/ PyIn(manager.cls, target_managers)

\* all_results[key] = value on a dict.
DictSet(dict, key, value) ==
  [x \in DOMAIN dict \cup {key} |-> IF x = key THEN value ELSE dict[x]]

EmptyDict == [x \in {} |-> 0]

\* self._reactions.occur_in_response_to: DefaultReactions, or the configured
\* REACTION_HANDLER, whose answer comes with the outcome.
Reactions_occur_in_response_to(outcome, clazz, action, payload, result, n_priors) ==
  IF "reaction" \in DOMAIN outcome
  THEN [sent |-> FALSE, ret |-> outcome.reaction]
  ELSE DefaultReactions_occur_in_response_to(clazz, action, payload, result,
                                             n_priors)

\* n_priors counting the reactions instead of adding what they return.
AddPriors_counting(n_priors, ret) == n_priors + 1

\* n_priors = n_priors + (what the reaction returned)
AddPriors(n_priors, ret) == n_priors + ret

\* The journal record of a manager call filed under ":any".
JournalRecord_any(method_name, cls, args, result) ==
  [e |-> "record", id |-> method_name \o ":any", args |-> args,
   result |-> result]

\* self.__activity_stream.record(method_name + ":" + class name, args, result)
JournalRecord(method_name, cls, args, result) ==
  [e |-> "record", id |-> method_name \o ":" \o cls, args |-> args,
   result |-> result]

\* The manager loop of _safe_call from manager i on; acc holds the locals
\* status, all_results and n_priors and the calls made so far (manager
\* methods, journal records, reactions).
RECURSIVE ManagerLoop(_, _, _, _, _, _, _)
ManagerLoop(managers, i, method_name, args, target_managers, outcomes, acc) ==
  IF i > Len(managers)
  THEN [exc |-> FALSE,
        result |-> Result(acc.status, PyMap(acc.all_results)),
        events |-> acc.events]
  ELSE IF ~Targeted(managers[i], target_managers)
         \/ method_name \notin managers[i].methods
  THEN ManagerLoop(managers, i + 1, method_name, args, target_managers,
                   outcomes, acc)
  ELSE LET cls == managers[i].cls
           call == [e |-> "call", i |-> i, cls |-> cls, method |-> method_name,
                    args |-> args]
       IN IF outcomes[i].k = "raise"
          THEN [exc |-> TRUE, events |-> Append(acc.events, call)]
          ELSE LET result == Result(outcomes[i].status, PyInt(i))
                   fired == Reactions_occur_in_response_to(
                              outcomes[i], cls, method_name, args, result,
                              acc.n_priors)
               IN ManagerLoop(managers, i + 1, method_name, args,
                    target_managers, outcomes,
                    [status |-> acc.status + result.status,
                     all_results |-> DictSet(acc.all_results, cls,
                                             to_transport_format(result)),
                     n_priors |-> AddPriors(acc.n_priors, fired.ret),
                     events |-> acc.events \o
                       <<call,
                         JournalRecord(method_name, cls, args, result),
                         [e |-> "react", cls |-> cls, method |-> method_name,
                          n_priors |-> acc.n_priors, sent |-> fired.sent,
                          ret |-> fired.ret]>>])

\* _safe_call going through the managers from the last to the first.
Router_safe_call_reversed(managers, read_only, method_name, args, target_managers, outcomes) ==
  LET n == Len(managers) IN
    ManagerLoop([i \in 1..n |-> managers[n + 1 - i]], 1, method_name, args,
                target_managers, [i \in 1..n |-> outcomes[n + 1 - i]],
                [status |-> 0, all_results |-> EmptyDict, n_priors |-> 0,
                 events |-> <<>>])

\* _safe_call: the read-only gate, then the manager loop.
Router_safe_call(managers, read_only, method_name, args, target_managers, outcomes) ==
  IF read_only /\ WriteRequested(method_name)
  THEN LET result == Result(470,
             PyStr("Read-only operation is enabled, but write operation requested"))
       IN [exc |-> FALSE, result |-> result,
           events |-> <<[e |-> "record", id |-> method_name \o ":any",
                         args |-> args, result |-> result]>>]
  ELSE ManagerLoop(managers, 1, method_name, args, target_managers, outcomes,
                   [status |-> 0, all_results |-> EmptyDict, n_priors |-> 0,
                    events |-> <<>>])

NoRequest == [method_name |-> "none"]

NoOutcome == [exc |-> FALSE, events |-> <<>>]

RtrOff ==
  /\ rtrManagers = <<>>
  /\ rtrReadOnly = FALSE
  /\ rtrPc = "off"
  /\ rtrRequest = NoRequest
  /\ rtrLast = NoOutcome

\* The Router after its constructor: every hook became a manager, and the
\* read-only flag is as configured.
RtrInit ==
  /\ rtrManagers \in ManagerLists
  /\ rtrReadOnly \in BOOLEAN
  /\ rtrPc = "idle"
  /\ rtrRequest = NoRequest
  /\ rtrLast = NoOutcome

\* One call of _safe_call.
SafeCall(method_name, args, target_managers, outcomes) ==
  /\ rtrPc = "idle"
  /\ rtrRequest' = [method_name |-> method_name, args |-> args,
                    target_managers |-> target_managers]
  /\ rtrLast' = Router_safe_call(rtrManagers, rtrReadOnly, method_name, args,
                                 target_managers, outcomes)
  /\ rtrPc' = "returned"
  /\ UNCHANGED <<rtrManagers, rtrReadOnly>>
  /\ UNCHANGED rtrOthers

\* The caller has taken the Result (or the exception); the Router is ready
\* for the next request.
TakeResult ==
  /\ rtrPc = "returned"
  /\ rtrPc' = "idle"
  /\ rtrRequest' = NoRequest
  /\ rtrLast' = NoOutcome
  /\ UNCHANGED <<rtrManagers, rtrReadOnly>>
  /\ UNCHANGED rtrOthers

----------------------------------------------------------------------------
(* The connect/consume loop of start, and shutdown, of the RPC server and  *)
(* of the Consumer.  What the consume callback does with a delivery is in  *)
(* the sections above; here a consuming period ends in one of the ways     *)
(* start distinguishes.                                                    *)

MaxSignals == 1

StartKinds == {"RPCServer", "Consumer"}

\* The calls shutdown makes, in order; each is wrapped in its own try.
RPCServer_shutdown == <<"finalize", "stop_consuming", "close">>

Consumer_shutdown == <<"stop_consuming", "close">>

shutdown(kind) ==
  IF kind = "RPCServer" THEN RPCServer_shutdown ELSE Consumer_shutdown

\* Whether start installs shutdown as the SIGTERM handler.
InstallsSigtermHandler(kind) == kind = "Consumer"

\* The condition of the while loop of start.
LoopCondition == stConnectAttempts < ConnectLimit /\ ~stExit

StOff ==
  /\ stKind = "none"
  /\ stPc = "off"
  /\ stConnectAttempts = 0
  /\ stExit = FALSE
  /\ stRequested = {}
  /\ stLog = <<>>
  /\ stFailed = <<>>
  /\ stSignals = 0
  /\ stLost = 0

\* start has built the handler (the RPC server also initializes it) and is
\* at the head of its loop with connect_attempts = 1.
StInit ==
  /\ stKind \in StartKinds
  /\ stPc = "loop"
  /\ stConnectAttempts = 1
  /\ stExit = FALSE
  /\ stRequested = {}
  /\ stLog = IF stKind = "RPCServer" THEN <<"initialize">> ELSE <<>>
  /\ stFailed = <<>>
  /\ stSignals = 0
  /\ stLost = 0

\* connect() returns False: start sleeps connect_attempts*5 seconds and
\* counts the attempt.
StartConnectFails ==
  /\ stPc = "loop"
  /\ LoopCondition
  /\ stFailed' = Append(stFailed, [attempt |-> stConnectAttempts,
                                   sleep |-> stConnectAttempts * 5])
  /\ stConnectAttempts' = stConnectAttempts + 1
  /\ UNCHANGED <<stKind, stPc, stExit, stRequested, stLog, stSignals, stLost>>
  /\ UNCHANGED stOthers

\* connect() returns True with the count of attempts left as it is.
StartConnectOk_keepsCount ==
  /\ stPc = "loop"
  /\ LoopCondition
  /\ stConnectAttempts' = stConnectAttempts
  /\ stFailed' = <<>>
  /\ stLog' = Append(stLog, "connect")
  /\ stPc' = "consuming"
  /\ UNCHANGED <<stKind, stExit, stRequested, stSignals, stLost>>
  /\ UNCHANGED stOthers

\* connect() returns True: the count restarts and start_consuming is entered.
StartConnectOk ==
  /\ stPc = "loop"
  /\ LoopCondition
  /\ stConnectAttempts' = 1
  /\ stFailed' = <<>>
  /\ stLog' = Append(stLog, "connect")
  /\ stPc' = "consuming"
  /\ UNCHANGED <<stKind, stExit, stRequested, stSignals, stLost>>
  /\ UNCHANGED stOthers

\* start_consuming raises ConnectionClosed or ChannelClosed: the loop goes
\* round again.
StartConnectionClosed ==
  /\ stPc = "consuming"
  /\ stLost < MaxDisconnects
  /\ stLost' = stLost + 1
  /\ stPc' = "loop"
  /\ UNCHANGED <<stKind, stConnectAttempts, stExit, stRequested, stLog,
                 stFailed, stSignals>>
  /\ UNCHANGED stOthers

\* The callback consumes CLOSE_IMMEDIATELY: it sets _exit_requested and
\* stops consuming, so start_consuming returns to the loop.
StartCloseImmediately ==
  /\ stPc = "consuming"
  /\ stExit' = TRUE
  /\ stRequested' = stRequested \cup {"CLOSE_IMMEDIATELY"}
  /\ stLog' = Append(stLog, "stop_consuming")
  /\ stPc' = "loop"
  /\ UNCHANGED <<stKind, stConnectAttempts, stFailed, stSignals, stLost>>
  /\ UNCHANGED stOthers

\* A keyboard interrupt: inside start_consuming it is caught and breaks the
\* loop; inside connect() or the sleep nothing catches it and start raises.
StartKeyboardInterrupt ==
  /\ stPc \in {"loop", "consuming"}
  /\ stRequested' = stRequested \cup {"KeyboardInterrupt"}
  /\ stPc' = IF stPc = "consuming" THEN "after_loop" ELSE "raised"
  /\ UNCHANGED <<stKind, stConnectAttempts, stExit, stLog, stFailed,
                 stSignals, stLost>>
  /\ UNCHANGED stOthers

\* start_consuming raises any other exception: the loop is left.
StartConsumeError ==
  /\ stPc = "consuming"
  /\ stPc' = "after_loop"
  /\ UNCHANGED <<stKind, stConnectAttempts, stExit, stRequested, stLog,
                 stFailed, stSignals, stLost>>
  /\ UNCHANGED stOthers

\* SIGTERM.  The Consumer runs shutdown as the handler and then resumes
\* where it was: a consuming period ends by returning, by a closed
\* connection or by another exception.  The RPC server installs no
\* handler, so the signal ends the process.
StartSigterm(ending) ==
  /\ stPc \in {"loop", "consuming"}
  /\ stSignals < MaxSignals
  /\ stSignals' = stSignals + 1
  /\ stRequested' = stRequested \cup {"SIGTERM"}
  /\ IF InstallsSigtermHandler(stKind)
       THEN /\ stLog' = stLog \o shutdown(stKind)
            /\ stPc' = IF stPc = "consuming" /\ ending = "exception"
                         THEN "after_loop" ELSE "loop"
       ELSE /\ stLog' = stLog
            /\ stPc' = "killed"
  /\ UNCHANGED <<stKind, stConnectAttempts, stExit, stFailed, stLost>>
  /\ UNCHANGED stOthers

\* The loop is over: the Consumer calls shutdown(0, None); both return 1.
StartLoopEnds ==
  /\ \/ stPc = "loop" /\ ~LoopCondition
     \/ stPc = "after_loop"
  /\ stLog' = IF stKind = "Consumer" THEN stLog \o shutdown(stKind) ELSE stLog
  /\ stPc' = "returned"
  /\ UNCHANGED <<stKind, stConnectAttempts, stExit, stRequested, stFailed,
                 stSignals, stLost>>
  /\ UNCHANGED stOthers

\* The RPC server leaves the `with` block around start: __exit__ calls
\* shutdown(0, None).
RPCServer_exit ==
  /\ stKind = "RPCServer"
  /\ stPc \in {"returned", "raised"}
  /\ stLog' = stLog \o shutdown(stKind)
  /\ stPc' = "exited"
  /\ UNCHANGED <<stKind, stConnectAttempts, stExit, stRequested, stFailed,
                 stSignals, stLost>>
  /\ UNCHANGED stOthers

----------------------------------------------------------------------------
(* The life of a Router object: construction from the HOOKS list,          *)
(* initialize, requests, finalize, and the `with` block.                   *)

MaxHooks == 2

MaxRouterCalls == 2

HookPaths == {"a.Handler1", "b.Handler2"}

\* What a hook does when the Router constructs it.  "ok": it becomes a
\* manager whose finalize returns; "finalize_raises": it becomes a manager
\* whose finalize raises.
HookKinds ==
  {"ok", "finalize_raises", "instantiate_raises", "no_initialize",
   "initialize_raises", "no_finalize"}

Hooks == [path : HookPaths, kind : HookKinds]

RECURSIVE HookListsOfLen(_)
HookListsOfLen(n) ==
  IF n = 0 THEN {<<>>}
  ELSE {Append(l, h) : l \in HookListsOfLen(n - 1), h \in Hooks}

HookLists == UNION {HookListsOfLen(n) : n \in 0..MaxHooks}

\* The body of the loop over hooks in __init__: the calls made on the
\* object built from the hook, and whether it was appended to _managers.
LoadHook(hook) ==
  IF hook.kind = "instantiate_raises"
  THEN [loaded |-> FALSE, calls |-> <<>>]
  ELSE IF hook.kind = "no_initialize"
  THEN [loaded |-> FALSE, calls |-> <<>>]
  ELSE IF hook.kind = "initialize_raises"
  THEN [loaded |-> FALSE,
        calls |-> <<[e |-> "initialize", path |-> hook.path]>>]
  ELSE IF hook.kind = "no_finalize"
  THEN [loaded |-> FALSE,
        calls |-> <<[e |-> "initialize", path |-> hook.path]>>]
  ELSE [loaded |-> TRUE,
        calls |-> <<[e |-> "initialize", path |-> hook.path]>>]

RECURSIVE LoadHooks(_, _, _)
LoadHooks(hooks, i, acc) ==
  IF i > Len(hooks) THEN acc
  ELSE LET r == LoadHook(hooks[i])
       IN LoadHooks(hooks, i + 1,
            [managers |-> IF r.loaded THEN Append(acc.managers, hooks[i])
                          ELSE acc.managers,
             calls |-> acc.calls \o r.calls])

\* The test after the loop that never lets a reduced set run.
ReducedSet_ignored(managers, hooks) == FALSE

ReducedSet(managers, hooks) == Len(managers) < Len(hooks)

\* Router.finalize: finalize on each manager in order; an exception of one
\* leaves the loop and finalize.
RECURSIVE Router_finalize(_, _, _)
Router_finalize(managers, i, calls) ==
  IF i > Len(managers) THEN [exc |-> FALSE, calls |-> calls]
  ELSE LET call == [e |-> "finalize", path |-> managers[i].path, i |-> i]
       IN IF managers[i].kind = "finalize_raises"
          THEN [exc |-> TRUE, calls |-> Append(calls, call)]
          ELSE Router_finalize(managers, i + 1, Append(calls, call))

\* Router.initialize: a stub.
Router_initialize(managers) == <<>>

RouterCalls(name) == {i \in DOMAIN rcLog : rcLog[i].e = name}

\* The entries of the log that are calls on the Router itself.
CallsOnRouter ==
  {i \in DOMAIN rcLog :
     rcLog[i].e \in {"request", "Router.initialize", "Router.finalize"}}

RcOff ==
  /\ rcHooks = <<>>
  /\ rcManagers = <<>>
  /\ rcPc = "off"
  /\ rcLog = <<>>
  /\ rcScope = "none"

\* Before Router(): the configuration names the hooks.
RcInit ==
  /\ rcHooks \in HookLists
  /\ rcManagers = <<>>
  /\ rcPc = "new"
  /\ rcLog = <<>>
  /\ rcScope = "none"

\* Router(), plain or as the expression of a `with` statement.
Router_init(in_with) ==
  /\ rcPc = "new"
  /\ LET r == LoadHooks(rcHooks, 1, [managers |-> <<>>, calls |-> <<>>])
     IN /\ rcManagers' = r.managers
        /\ rcLog' = r.calls
        /\ IF ReducedSet(r.managers, rcHooks)
             THEN rcPc' = "exit_1" /\ rcScope' = "none"
             ELSE /\ rcPc' = "ready"
                  /\ rcScope' = IF in_with THEN "inside" ELSE "none"
  /\ UNCHANGED rcHooks
  /\ UNCHANGED rcOthers

\* A request reaches the managers of the constructed Router.
RouterRequest ==
  /\ rcPc = "ready"
  /\ Cardinality(CallsOnRouter) < MaxRouterCalls
  /\ rcLog' = Append(rcLog, [e |-> "request", managers |-> rcManagers])
  /\ UNCHANGED <<rcHooks, rcManagers, rcPc, rcScope>>
  /\ UNCHANGED rcOthers

\* Router.initialize() is called (by the RPC server's start).
RouterInitialize ==
  /\ rcPc = "ready"
  /\ Cardinality(CallsOnRouter) < MaxRouterCalls
  /\ rcLog' = Append(rcLog, [e |-> "Router.initialize"])
               \o Router_initialize(rcManagers)
  /\ UNCHANGED <<rcHooks, rcManagers, rcPc, rcScope>>
  /\ UNCHANGED rcOthers

\* Router.finalize() is called directly (by the RPC server's shutdown).
RouterFinalize ==
  /\ rcPc = "ready"
  /\ Cardinality(CallsOnRouter) < MaxRouterCalls
  /\ LET r == Router_finalize(rcManagers, 1, <<>>)
     IN rcLog' = Append(rcLog, [e |-> "Router.finalize", exc |-> r.exc])
                  \o r.calls
  /\ UNCHANGED <<rcHooks, rcManagers, rcPc, rcScope>>
  /\ UNCHANGED rcOthers

\* The `with` block is left, normally or through an exception of its body:
\* __exit__ calls finalize.
Router_exit(how) ==
  /\ rcPc = "ready"
  /\ rcScope = "inside"
  /\ LET r == Router_finalize(rcManagers, 1, <<>>)
     IN rcLog' = (rcLog \o <<[e |-> "__exit__", how |-> how],
                             [e |-> "Router.finalize", exc |-> r.exc]>>)
                  \o r.calls
  /\ rcScope' = "left"
  /\ rcPc' = "closed"
  /\ UNCHANGED <<rcHooks, rcManagers>>
  /\ UNCHANGED rcOthers

----------------------------------------------------------------------------
(* The client facade: BaseClient's methods taking group_atts or user_atts, *)
(* over a transport whose send receives the request mapping.               *)

MaxFacadeCalls == 2

AttKeys == {"name", "ou", "gid"}

\* The attribute mappings handed to the facade.
Atts == UNION {[keys -> {PyStr("v")}] : keys \in SUBSET AttKeys}

AttsMethods == {"add_group", "update_group", "add_user", "update_user"}

AttsParameter(method) ==
  IF method \in {"add_group", "update_group"} THEN "group_atts" ELSE "user_atts"

\* Which methods test `'name' not in ..._atts` before building the request.
ChecksName(method) == method \in {"add_group", "add_user"}

\* One facade method: the exception it raises, or the request it hands to
\* _call, that is to the transport's send.
BaseClient_method(method, atts, managers) ==
  IF ChecksName(method) /\ "name" \notin DOMAIN atts
  THEN [exc |-> TRUE, method |-> method, atts |-> atts]
  ELSE [exc |-> FALSE, method |-> method, atts |-> atts,
        request |-> [action |-> method, parameter |-> AttsParameter(method),
                     atts |-> atts, managers |-> managers]]

FcOff ==
  /\ fcSent = <<>>
  /\ fcLast = [exc |-> FALSE, method |-> "none"]

FcInit ==
  /\ fcSent = <<>>
  /\ fcLast = [exc |-> FALSE, method |-> "new"]

\* A call of one of the four methods.
FacadeCall(method, atts, managers) ==
  /\ fcLast.method # "none"
  /\ Len(fcSent) < MaxFacadeCalls
  /\ LET r == BaseClient_method(method, atts, managers)
     IN /\ fcLast' = r
        /\ fcSent' = IF r.exc THEN fcSent ELSE Append(fcSent, r.request)
  /\ UNCHANGED fcOthers

----------------------------------------------------------------------------
(* Configuration: the METAROOT mapping of the YAML file, the environment   *)
(* overrides applied when the module is loaded, and get_config.            *)

\* The environment variables that override, and the key each one sets.
params ==
  [METAROOT_MQUSER |-> "MQUSER", METAROOT_MQPASS |-> "MQPASS",
   METAROOT_MQHOST |-> "MQHOST", METAROOT_MQPORT |-> "MQPORT"]

MQKeys == {params[v] : v \in DOMAIN params}

\* A section of the file sets some of the keys, each to a value of its own.
Sections(value) == UNION {[keys -> {value}] : keys \in SUBSET MQKeys}

\* The keys get_config is called with, and str.upper of each.
RoleKeys == {"Router", "SlurmManager"}

upper(key) ==
  CASE key = "Router" -> "ROUTER"
    [] key = "SlurmManager" -> "SLURMMANAGER"
    [] OTHER -> key

\* Config.__init__: the defaults.
Config ==
  [LOG_FILE |-> "metaroot.log", SCREEN_VERBOSITY |-> "INFO",
   FILE_VERBOSITY |-> "INFO", ACTIVITY_STREAM_CLASS |-> "$NONE"]

\* Config.populate: every property of atts is set, over what is there.
populate(data, atts) ==
  [prop \in DOMAIN data \cup DOMAIN atts |->
     IF prop \in DOMAIN atts THEN atts[prop] ELSE data[prop]]

\* The loop of load_file_based_config over params: a variable that is set
\* replaces the key in the GLOBAL section.
Overload(config, env) ==
  [config EXCEPT !.GLOBAL =
     populate(config.GLOBAL,
              [k \in {params[v] : v \in DOMAIN env} |->
                 env[CHOOSE v \in DOMAIN env : params[v] = k]])]

\* get_config: GLOBAL, then the section of the key over it; an exception if
\* the file has no such section.
get_config(auto, key) ==
  IF upper(key) \in DOMAIN auto
  THEN [exc |-> FALSE, key |-> key,
        data |-> populate(populate(Config, auto.GLOBAL), auto[upper(key)])]
  ELSE [exc |-> TRUE, key |-> key]

CfOff ==
  /\ cfFile = <<>>
  /\ cfEnv = <<>>
  /\ cfAuto = <<>>
  /\ cfPc = "off"
  /\ cfGot = [exc |-> FALSE, key |-> "none"]

\* Before the module is loaded: a file with a GLOBAL section and a ROUTER
\* section, and an environment that sets some of the four variables.
CfInit ==
  /\ \E global \in Sections("global"), router \in Sections("router") :
       cfFile = [GLOBAL |-> global, ROUTER |-> router]
  /\ cfEnv \in UNION {[vs -> {"env"}] : vs \in SUBSET DOMAIN params}
  /\ cfAuto = <<>>
  /\ cfPc = "unloaded"
  /\ cfGot = [exc |-> FALSE, key |-> "none"]

\* auto = load_file_based_config()
LoadConfig ==
  /\ cfPc = "unloaded"
  /\ cfAuto' = Overload(cfFile, cfEnv)
  /\ cfPc' = "loaded"
  /\ UNCHANGED <<cfFile, cfEnv, cfGot>>
  /\ UNCHANGED cfOthers

\* get_config(key)
GetConfig(key) ==
  /\ cfPc = "loaded"
  /\ cfGot' = get_config(cfAuto, key)
  /\ UNCHANGED <<cfFile, cfEnv, cfAuto, cfPc>>
  /\ UNCHANGED cfOthers

----------------------------------------------------------------------------
(* The public methods of the Router, each a _safe_call under its own name. *)

PublicMethods ==
  {"add_group", "get_group", "list_groups", "get_members", "update_group",
   "delete_group", "exists_group", "add_user", "update_user", "get_user",
   "list_users", "validate_users", "roles_user", "delete_user",
   "exists_user", "set_user_default_group", "associate_user_to_group",
   "disassociate_user_from_group", "disassociate_users_from_group"}

\* The arguments a public method passes on, in the order of its signature.
PublicArgs(method) ==
  CASE method = "list_groups" -> <<>>
    [] method \in {"set_user_default_group", "associate_user_to_group",
                   "disassociate_user_from_group"} ->
         <<PyStr("user_name"), PyStr("group_name")>>
    [] method = "disassociate_users_from_group" ->
         <<PyList(<<PyStr("user_name")>>), PyStr("group_name")>>
    [] method \in {"add_group", "update_group", "add_user", "update_user"} ->
         <<PyMap([name |-> PyStr("n")])>>
    [] method = "validate_users" -> <<PyList(<<PyStr("n")>>)>>
    [] OTHER -> <<PyStr("n")>>

\* The managers of the read-only test: fifteen of the methods each.
TestMethods ==
  PublicMethods \ {"list_groups", "list_users", "validate_users", "roles_user"}

ReadOnlyTestHandlers ==
  {[cls |-> "Handler1", methods |-> TestMethods],
   [cls |-> "Handler2", methods |-> TestMethods]}

\* A public method of the Router.
Router_public(managers, read_only, method, target_managers, outcomes) ==
  Router_safe_call(managers, read_only, method, PublicArgs(method),
                   target_managers, outcomes)

\* A Router over the test's managers, read-only or not.
RtrInitPublic ==
  /\ rtrManagers \in UNION {[1..n -> ReadOnlyTestHandlers] : n \in 0..MaxManagers}
  /\ rtrReadOnly \in BOOLEAN
  /\ rtrPc = "idle"
  /\ rtrRequest = NoRequest
  /\ rtrLast = NoOutcome

\* One call of a public method.
PublicCall(method, target_managers, outcomes) ==
  /\ rtrPc = "idle"
  /\ rtrRequest' = [method_name |-> method, args |-> PublicArgs(method),
                    target_managers |-> target_managers,
                    outcomes |-> outcomes]
  /\ rtrLast' = Router_public(rtrManagers, rtrReadOnly, method,
                              target_managers, outcomes)
  /\ rtrPc' = "returned"
  /\ UNCHANGED <<rtrManagers, rtrReadOnly>>
  /\ UNCHANGED rtrOthers

----------------------------------------------------------------------------
(* One RPC client and one RPC server over the broker: what the client      *)
(* publishes is queued for the server, and what the server replies is      *)
(* queued for the client.  No publish fails and no connection is lost.     *)

rpcOthers == <<dispVars, conVars, prdVars, rtrVars, stVars, rcVars, fcVars, cfVars, tfVars, clVars>>

tfOthers == <<dispVars, srvVars, conVars, cliVars, prdVars, rtrVars, stVars, rcVars, fcVars, cfVars, clVars>>

clOthers == <<dispVars, srvVars, conVars, cliVars, prdVars, rtrVars, stVars, rcVars, fcVars, cfVars, tfVars>>

\* The request of the k-th send: echo of the message k.
RpcMessage(k) == PyMap([action |-> PyStr("echo"), message |-> PyInt(k)])

\* The iteration of the publish loop in which basic_publish returns: the
\* request is in the server's queue.
RpcPublishOk ==
  /\ cliPc = "publishing"
  /\ cliNotSent /\ cliAttempts < PublishLimit
  /\ cliConnOpen
  /\ srvQueue' = Append(srvQueue, [body |-> safe_dump(RpcMessage(cliSends)),
                                  reply_to |-> cliCallbackQueue,
                                  correlation_id |-> cliCorrId])
  /\ cliNotSent' = FALSE
  /\ cliAttempts' = cliAttempts + 1
  /\ UNCHANGED <<cliPc, cliCorrId, cliResponse, cliCallbackQueue, cliConnOpen,
                 cliSends, cliPolls, cliUuids, cliDrops, cliResults, cliSeen,
                 brokerRequests, cliReplies>>
  /\ UNCHANGED <<srvCur, srvPc, srvMessage, srvResult, srvReplies, srvAcked,
                 srvExit, srvConnectAttempts, srvDisconnects, srvCalls,
                 srvTag, srvDelivered>>
  /\ UNCHANGED rpcOthers

\* The server publishes the response: it is in the reply queue it was
\* addressed to, if that is the client's.
RpcReply ==
  /\ srvPc = "dispatched"
  /\ srvReplies' = Append(srvReplies, ReplyFor(srvCur, srvResult))
  /\ srvPc' = "published"
  /\ cliReplies' = IF cliConnOpen /\ srvCur.reply_to = cliCallbackQueue
                   THEN Append(cliReplies, ReplyFor(srvCur, srvResult))
                   ELSE cliReplies
  /\ UNCHANGED <<srvQueue, srvCur, srvMessage, srvResult, srvAcked, srvExit,
                 srvConnectAttempts, srvDisconnects, srvCalls, srvTag,
                 srvDelivered>>
  /\ UNCHANGED <<cliPc, cliCorrId, cliResponse, cliCallbackQueue, cliConnOpen,
                 cliAttempts, cliNotSent, cliSends, cliPolls, cliUuids, cliDrops,
                 cliResults, cliSeen, brokerRequests>>
  /\ UNCHANGED rpcOthers

----------------------------------------------------------------------------
(* Result: a Result, the mapping to_transport_format makes of it, and the   *)
(* Result from_transport_format makes of that mapping.                      *)

MaxStatus == 2

\* Result.status: by the code any integer.
ResultStatuses == (0 - MaxStatus)..MaxStatus

\* Result.response: null, a scalar, a list, a mapping keyed by strings.
ResultResponses ==
  {PyNone, PyInt(-1), PyStr("a"), PyList(<<>>), PyList(<<PyInt(1), PyStr("b")>>),
   PyMap(EmptyDict), PyMap([x \in {"Handler1"} |-> PyInt(0)])}

TfOff ==
  /\ tfPc = "off"
  /\ tfResult = Result(0, PyNone)
  /\ tfObj = None
  /\ tfBack = None

\* Result(status, response)
TfInit ==
  /\ tfPc = "result"
  /\ tfResult \in {Result(status, response) :
                     status \in ResultStatuses, response \in ResultResponses}
  /\ tfObj = None
  /\ tfBack = None

\* obj = r.to_transport_format()
ToTransport ==
  /\ tfPc = "result"
  /\ tfObj' = to_transport_format(tfResult)
  /\ tfPc' = "dict"
  /\ UNCHANGED <<tfResult, tfBack>>
  /\ UNCHANGED tfOthers

\* Result.from_transport_format(obj)
FromTransport ==
  /\ tfPc = "dict"
  /\ tfBack' = from_transport_format(tfObj)
  /\ tfPc' = "back"
  /\ UNCHANGED <<tfResult, tfObj>>
  /\ UNCHANGED tfOthers

----------------------------------------------------------------------------
(* The prefetch window of the consuming channel.                            *)

\* self._channel.basic_qos(prefetch_count=1)
prefetch_count == 1

\* basic_qos with no limit on the unacknowledged deliveries.
basic_qos_unlimited(unacked, queued) == queued

\* The number of queued messages the broker sends to the consumer while
\* `unacked` deliveries are outstanding on the channel.
basic_qos(unacked, queued) ==
  LET window == IF prefetch_count > unacked THEN prefetch_count - unacked ELSE 0
  IN IF queued < window THEN queued ELSE window

----------------------------------------------------------------------------
(* close of the RPC client and of the Producer: self.connection is None     *)
(* until connect() has made a connection, which is then open or closed.     *)

MaxCloses == 3

EndpointKinds == {"RPCClient", "Producer"}

\* close without the test of is_closed.
close_unguarded(connection, close_raises, left) ==
  IF connection = "None"
  THEN [exc |-> FALSE, warned |-> TRUE, called |-> FALSE, connection |-> connection]
  ELSE IF close_raises
       THEN [exc |-> FALSE, warned |-> TRUE, called |-> TRUE, connection |-> left]
       ELSE [exc |-> FALSE, warned |-> FALSE, called |-> TRUE, connection |-> "closed"]

\* try: if not self.connection.is_closed: self.connection.close()
\* except Exception: warning.  On None the attribute access raises inside
\* the try; a connection.close() that raises leaves the connection in the
\* state `left`.
close(connection, close_raises, left) ==
  IF connection = "None"
  THEN [exc |-> FALSE, warned |-> TRUE, called |-> FALSE, connection |-> connection]
  ELSE IF connection = "closed"
       THEN [exc |-> FALSE, warned |-> FALSE, called |-> FALSE, connection |-> connection]
       ELSE IF close_raises
            THEN [exc |-> FALSE, warned |-> TRUE, called |-> TRUE, connection |-> left]
            ELSE [exc |-> FALSE, warned |-> FALSE, called |-> TRUE, connection |-> "closed"]

ClOff ==
  /\ clKind = "none"
  /\ clConnection = "None"
  /\ clLog = <<>>

\* __init__: self.connection = None
ClInit ==
  /\ clKind \in EndpointKinds
  /\ clConnection = "None"
  /\ clLog = <<>>

\* connect() makes a new BlockingConnection.
EndpointConnect ==
  /\ clKind \in EndpointKinds
  /\ clConnection # "open"
  /\ clConnection' = "open"
  /\ UNCHANGED <<clKind, clLog>>
  /\ UNCHANGED clOthers

\* The connection is lost.
EndpointConnectionLost ==
  /\ clConnection = "open"
  /\ clConnection' = "closed"
  /\ UNCHANGED <<clKind, clLog>>
  /\ UNCHANGED clOthers

\* close(), directly or from __exit__.
EndpointClose(close_raises, left) ==
  /\ clKind \in EndpointKinds
  /\ Len(clLog) < MaxCloses
  /\ LET r == close(clConnection, close_raises, left)
     IN /\ clConnection' = r.connection
        /\ clLog' = Append(clLog, [before |-> clConnection, exc |-> r.exc,
                                   warned |-> r.warned, called |-> r.called,
                                   after |-> r.connection])
  /\ UNCHANGED clKind
  /\ UNCHANGED clOthers

----------------------------------------------------------------------------
(* Specifications.                                                         *)

NextDispatch == ServerDispatch \/ ConsumerDispatch

InitDispatch == DispInit /\ SrvOff /\ ConOff /\ CliOff /\ PrdOff /\ RtrOff /\ StOff /\ RcOff /\ FcOff /\ CfOff /\ TfOff /\ ClOff

SpecDispatch == InitDispatch /\ [][NextDispatch]_vars

NextServer ==
  \/ \E body \in ServerBodies, props \in RequestProps :
        ClientPublish(body, props)
  \/ Deliver
  \/ CloseReply
  \/ CloseAck
  \/ \E outcome \in HandlerOutcomes : Dispatch(outcome)
  \/ Reply
  \/ Ack
  \/ ConnectionLost
  \/ ConnectOk
  \/ StartReturns

InitServer == DispOff /\ SrvInit /\ ConOff /\ CliOff /\ PrdOff /\ RtrOff /\ StOff /\ RcOff /\ FcOff /\ CfOff /\ TfOff /\ ClOff

SpecServer == InitServer /\ [][NextServer]_vars

NextConsumer ==
  \/ \E body \in ServerBodies : ProducerPublish(body)
  \/ ConDeliver
  \/ ConClose
  \/ \E outcome \in HandlerOutcomes : ConDispatch(outcome)
  \/ ConAck

InitConsumer == DispOff /\ SrvOff /\ ConInit /\ CliOff /\ PrdOff /\ RtrOff /\ StOff /\ RcOff /\ FcOff /\ CfOff /\ TfOff /\ ClOff

SpecConsumer == InitConsumer /\ [][NextConsumer]_vars

NextClient ==
  \/ \E obj \in {Request(cliSends + 1), Unserializable} : SendStart(obj)
  \/ PublishOk
  \/ \E connected \in BOOLEAN : PublishFails(connected)
  \/ PublishEnd
  \/ \E n \in 0..MaxSends : Poll(n)
  \/ WaitEnd
  \/ ServerReply
  \/ ConnectionDrop

InitClient == DispOff /\ SrvOff /\ ConOff /\ CliInit /\ PrdOff /\ RtrOff /\ StOff /\ RcOff /\ FcOff /\ CfOff /\ TfOff /\ ClOff

SpecClient == InitClient /\ [][NextClient]_vars

NextProducer ==
  \/ \E obj \in {Request(prdSends + 1), Unserializable} : PrdSendStart(obj)
  \/ PrdPublishOk
  \/ \E connected \in BOOLEAN : PrdPublishFails(connected)
  \/ PrdPublishEnd
  \/ PrdConnectionDrop

InitProducer == DispOff /\ SrvOff /\ ConOff /\ CliOff /\ PrdInit /\ RtrOff /\ StOff /\ RcOff /\ FcOff /\ CfOff /\ TfOff /\ ClOff

SpecProducer == InitProducer /\ [][NextProducer]_vars

\* The two senders, one of them in use.
NextSenders ==
  \/ \E obj \in {Request(cliSends + 1), Unserializable} : SendStart(obj)
  \/ PublishOk
  \/ \E connected \in BOOLEAN : PublishFails(connected)
  \/ PublishEnd
  \/ \E n \in 0..MaxSends : Poll(n)
  \/ WaitEnd
  \/ ServerReply
  \/ ConnectionDrop
  \/ \E obj \in {Request(prdSends + 1), Unserializable} : PrdSendStart(obj)
  \/ PrdPublishOk
  \/ \E connected \in BOOLEAN : PrdPublishFails(connected)
  \/ PrdPublishEnd
  \/ PrdConnectionDrop

InitSenders ==
  /\ DispOff /\ SrvOff /\ ConOff /\ RtrOff /\ StOff /\ RcOff /\ FcOff /\ CfOff /\ TfOff /\ ClOff
  /\ \/ CliInit /\ PrdOff
     \/ CliOff /\ PrdInit

SpecSenders == InitSenders /\ [][NextSenders]_vars

NextRouter ==
  \/ \E method_name \in MethodNames, target_managers \in TargetValues,
        outcomes \in [1..Len(rtrManagers) -> ManagerOutcomes] :
          SafeCall(method_name, <<PyStr("g")>>, target_managers, outcomes)
  \/ TakeResult

InitRouter == DispOff /\ SrvOff /\ ConOff /\ CliOff /\ PrdOff /\ RtrInit /\ StOff /\ RcOff /\ FcOff /\ CfOff /\ TfOff /\ ClOff

SpecRouter == InitRouter /\ [][NextRouter]_vars

NextStart ==
  \/ StartConnectFails
  \/ StartConnectOk
  \/ StartConnectionClosed
  \/ StartCloseImmediately
  \/ StartKeyboardInterrupt
  \/ StartConsumeError
  \/ \E ending \in {"returns", "closed", "exception"} : StartSigterm(ending)
  \/ StartLoopEnds
  \/ RPCServer_exit

InitStart ==
  DispOff /\ SrvOff /\ ConOff /\ CliOff /\ PrdOff /\ RtrOff /\ StInit /\ RcOff /\ FcOff /\ CfOff /\ TfOff /\ ClOff

SpecStart == InitStart /\ [][NextStart]_vars

NextRouterLife ==
  \/ \E in_with \in BOOLEAN : Router_init(in_with)
  \/ RouterRequest
  \/ RouterInitialize
  \/ RouterFinalize
  \/ \E how \in {"normal", "exception"} : Router_exit(how)

InitRouterLife ==
  DispOff /\ SrvOff /\ ConOff /\ CliOff /\ PrdOff /\ RtrOff /\ StOff /\ RcInit /\ FcOff /\ CfOff /\ TfOff /\ ClOff

SpecRouterLife == InitRouterLife /\ [][NextRouterLife]_vars

NextFacade ==
  \E method \in AttsMethods, atts \in Atts,
     managers \in {PyStr("any"), PyList(<<PyStr("Handler1")>>)} :
       FacadeCall(method, atts, managers)

InitFacade ==
  DispOff /\ SrvOff /\ ConOff /\ CliOff /\ PrdOff /\ RtrOff /\ StOff /\ RcOff /\ FcInit /\ CfOff /\ TfOff /\ ClOff

SpecFacade == InitFacade /\ [][NextFacade]_vars

NextConfig ==
  \/ LoadConfig
  \/ \E key \in RoleKeys : GetConfig(key)

InitConfig ==
  DispOff /\ SrvOff /\ ConOff /\ CliOff /\ PrdOff /\ RtrOff /\ StOff /\ RcOff /\ FcOff /\ CfInit /\ TfOff /\ ClOff

SpecConfig == InitConfig /\ [][NextConfig]_vars

NextRouterPublic ==
  \/ \E method \in PublicMethods,
        target_managers \in {PyStr("any"), PyList(<<PyStr("Handler2")>>)},
        outcomes \in [1..Len(rtrManagers) -> ManagerOutcomes] :
          PublicCall(method, target_managers, outcomes)
  \/ TakeResult

InitRouterPublic ==
  DispOff /\ SrvOff /\ ConOff /\ CliOff /\ PrdOff /\ RtrInitPublic /\ StOff /\ RcOff /\ FcOff /\ CfOff /\ TfOff /\ ClOff

SpecRouterPublic == InitRouterPublic /\ [][NextRouterPublic]_vars

\* One client and one server.
NextRpc ==
  \/ SendStart(Request(cliSends + 1))
  \/ RpcPublishOk
  \/ PublishEnd
  \/ \E n \in 0..MaxSends : Poll(n)
  \/ WaitEnd
  \/ Deliver
  \/ \E outcome \in HandlerOutcomes : Dispatch(outcome)
  \/ RpcReply
  \/ Ack

InitRpc ==
  DispOff /\ SrvInit /\ ConOff /\ CliInit /\ PrdOff /\ RtrOff /\ StOff /\ RcOff /\ FcOff /\ CfOff /\ TfOff /\ ClOff

SpecRpc == InitRpc /\ [][NextRpc]_vars

\* The outcomes under a configured REACTION_HANDLER: what the manager's
\* method returns (or that it raises) and what the reaction to it returns.
ReactingOutcomes ==
  [k : {"result"}, status : {0, 1}, reaction : {0, 1, 2}] \cup {[k |-> "raise"]}

NextRouterReactions ==
  \/ \E method_name \in {"add_group", "get_group"},
        target_managers \in {PyStr("any"), PyList(<<PyStr("Handler2")>>)},
        outcomes \in [1..Len(rtrManagers) -> ReactingOutcomes] :
          SafeCall(method_name, <<PyStr("g")>>, target_managers, outcomes)
  \/ TakeResult

InitRouterReactions ==
  DispOff /\ SrvOff /\ ConOff /\ CliOff /\ PrdOff /\ RtrInit /\ StOff /\ RcOff /\ FcOff /\ CfOff /\ TfOff /\ ClOff

SpecRouterReactions == InitRouterReactions /\ [][NextRouterReactions]_vars

NextTransport ==
  \/ ToTransport
  \/ FromTransport

InitTransport ==
  DispOff /\ SrvOff /\ ConOff /\ CliOff /\ PrdOff /\ RtrOff /\ StOff /\ RcOff /\ FcOff /\ CfOff /\ TfInit /\ ClOff

SpecTransport == InitTransport /\ [][NextTransport]_vars

NextReceivers ==
  \/ \E body \in ServerBodies, props \in RequestProps :
        srvPc # "off" /\ ClientPublish(body, props)
  \/ Deliver
  \/ CloseReply
  \/ CloseAck
  \/ \E outcome \in HandlerOutcomes : Dispatch(outcome)
  \/ Reply
  \/ Ack
  \/ ConnectionLost
  \/ ConnectOk
  \/ StartReturns
  \/ \E body \in ServerBodies : ProducerPublish(body)
  \/ ConDeliver
  \/ ConClose
  \/ \E outcome \in HandlerOutcomes : ConDispatch(outcome)
  \/ ConAck

InitReceivers ==
  /\ DispOff /\ CliOff /\ PrdOff /\ RtrOff /\ StOff /\ RcOff /\ FcOff /\ CfOff /\ TfOff /\ ClOff
  /\ \/ SrvInit /\ ConOff
     \/ SrvOff /\ ConInit

SpecReceivers == InitReceivers /\ [][NextReceivers]_vars

NextClose ==
  \/ EndpointConnect
  \/ EndpointConnectionLost
  \/ \E close_raises \in BOOLEAN, left \in {"open", "closed"} :
       EndpointClose(close_raises, left)

InitClose ==
  DispOff /\ SrvOff /\ ConOff /\ CliOff /\ PrdOff /\ RtrOff /\ StOff /\ RcOff /\ FcOff /\ CfOff /\ TfOff /\ ClInit

SpecClose == InitClose /\ [][NextClose]_vars

----------------------------------------------------------------------------
(* Claims.                                                                 *)

\* The replies published for a delivery: to its reply_to, carrying its
\* correlation_id.
RepliesTo(d) ==
  {i \in DOMAIN srvReplies :
     /\ srvReplies[i].tag = d.tag
     /\ srvReplies[i].routing_key = d.reply_to
     /\ srvReplies[i].correlation_id = d.correlation_id}

\* The callback of delivery t has ended (it returned or raised).
CallbackEnded(t) ==
  t # srvCur.tag
    \/ srvPc \in {"consuming", "stopped", "failed", "connecting", "returned"}

\* C1: for every message delivered to RPCServer.consume_callback, whatever
\* its body and whatever the handler does, exactly one reply is published
\* to its reply_to carrying its correlation_id.
C1_ExactlyOneReply ==
  \A t \in 1..srvTag :
    CallbackEnded(t) => Cardinality(RepliesTo(srvDelivered[t])) = 1

\* C2: the reply to a message is published before the message is
\* acknowledged: no delivery is ever acknowledged without a reply to it
\* having been published, on the CLOSE_IMMEDIATELY path and on the normal
\* path.
C2_ReplyBeforeAck ==
  \A i \in DOMAIN srvAcked : RepliesTo(srvDelivered[srvAcked[i]]) # {}

\* Both paths have acknowledged a message: a request and then
\* CLOSE_IMMEDIATELY.
C2_Witness ==
  /\ Len(srvAcked) = 2
  /\ srvDelivered[srvAcked[1]].body # Yaml(CLOSE_IMMEDIATELY)
  /\ srvDelivered[srvAcked[2]].body = Yaml(CLOSE_IMMEDIATELY)
  /\ srvPc = "stopped"

\* The k-th send returned a Result decoded from a reply (not one of the
\* client's own 453, 470 or 471).
ReturnedDecoded(k) ==
  /\ cliResults[k].k = "result"
  /\ cliResults[k].r.status \notin {453, 470, 471}

ReturnedTimeout(k) ==
  /\ cliResults[k].k = "result"
  /\ cliResults[k].r.status = 471

\* The calls of on_response during the k-th send with a reply whose
\* correlation_id is the pending one.
MatchingSeen(k) ==
  {i \in DOMAIN cliSeen :
     cliSeen[i].send = k /\ cliSeen[i].correlation_id = cliSeen[i].pending}

\* C3: send returns a Result decoded from a reply body only if that reply's
\* correlation_id equals the pending correlation id of that send, and a
\* reply whose correlation_id differs from the pending id never changes
\* self.response.
C3_OnlyMatchingReply ==
  /\ \A i \in DOMAIN cliSeen :
       cliSeen[i].correlation_id # cliSeen[i].pending =>
         cliSeen[i].after = cliSeen[i].before
  /\ \A k \in DOMAIN cliResults :
       ReturnedDecoded(k) =>
         \E i \in MatchingSeen(k) :
           cliResults[k].r = Decoded(<<cliSeen[i].body>>)

\* During the second send a reply with another correlation id (the late
\* reply to the first request) was delivered and left self.response alone.
C3_Witness ==
  /\ cliPc = "waiting"
  /\ cliSends = 2
  /\ cliResponse = None
  /\ \E i \in DOMAIN cliSeen :
       /\ cliSeen[i].send = 2
       /\ cliSeen[i].correlation_id # cliSeen[i].pending
       /\ cliSeen[i].after = None

\* C4: send returns 471 only if no reply with the pending correlation id was
\* received during its wait loop; whenever one is received, on any poll,
\* send returns the Result decoded from it.
C4_TimeoutOnlyWithoutReply ==
  \A k \in DOMAIN cliResults :
    /\ ReturnedTimeout(k) => MatchingSeen(k) = {}
    /\ \A i \in MatchingSeen(k) :
         cliResults[k] = Returned(Decoded(<<cliSeen[i].body>>))

\* C5: after send has returned 471 for a request, the reply to that request
\* is never returned as the result of a later send.
C5_LateReplyIgnored ==
  \A j \in DOMAIN cliResults : \A k \in DOMAIN cliResults :
    (j < k /\ ReturnedTimeout(j) /\ ReturnedDecoded(k)) =>
      cliResults[k].r # Decoded(<<ReplyTo([reply_to |-> 0, correlation_id |-> None,
                                           n |-> j]).body>>)

\* The first send timed out, its reply arrived during the second send, and
\* the second send returned the reply to the second request.
C5_Witness ==
  /\ Len(cliResults) = 2
  /\ ReturnedTimeout(1)
  /\ cliResults[2] = Returned(Result(0, PyInt(2)))
  /\ \E i \in DOMAIN cliSeen :
       /\ cliSeen[i].send = 2
       /\ cliSeen[i].body = safe_dump(to_transport_format(Result(0, PyInt(1))))

\* The method name contains one of the write words as a substring.
ContainsWriteWord(method_name) ==
  \E w \in {"add", "delete", "associate", "update", "set"} :
    Contains(method_name, w)

\* _safe_call has returned a Result that the read-only gate did not reject.
ReturnedUngated ==
  /\ rtrPc = "returned"
  /\ ~rtrLast.exc
  /\ ~(rtrReadOnly /\ ContainsWriteWord(rtrRequest.method_name))

RECURSIVE SumOfStatuses(_, _)
SumOfStatuses(dict, keys) ==
  IF keys = {} THEN 0
  ELSE LET key == CHOOSE x \in keys : TRUE
       IN dict[key].status + SumOfStatuses(dict, keys \ {key})

\* C6: the status of a Result returned by _safe_call (not rejected by the
\* read-only gate) is the sum of the status fields of the per-manager
\* entries of its response mapping, for every manager list and targets.
C6_StatusIsSumOfEntries ==
  ReturnedUngated =>
    rtrLast.result.status =
      SumOfStatuses(rtrLast.result.response.v, DOMAIN rtrLast.result.response.v)

\* The configured managers that pass the targets filter and expose the
\* requested method.
PassingManagers ==
  {i \in DOMAIN rtrManagers :
     /\ \/ PyEq(rtrRequest.target_managers, PyStr("any"))
        \/ /\ rtrRequest.target_managers.k = "list"
           /\ \E j \in DOMAIN rtrRequest.target_managers.v :
                rtrRequest.target_managers.v[j] = PyStr(rtrManagers[i].cls)
     /\ rtrRequest.method_name \in rtrManagers[i].methods}

\* The managers whose method was called during the request.
CalledManagers ==
  {rtrLast.events[n].i : n \in {m \in DOMAIN rtrLast.events :
                                  rtrLast.events[m].e = "call"}}

\* C7: for a request not rejected by the read-only gate, the keys of the
\* response mapping are exactly the class names of the configured managers
\* that pass the targets filter and expose the method; only those managers
\* are called.
C7_ResponseKeys ==
  ReturnedUngated =>
    /\ DOMAIN rtrLast.result.response.v =
         {rtrManagers[i].cls : i \in PassingManagers}
    /\ CalledManagers = PassingManagers

\* Two managers, targets ["Handler2"]: only Handler2 is in the response.
C7_Witness ==
  /\ ReturnedUngated
  /\ rtrManagers = <<Handler1, Handler2>>
  /\ rtrRequest.method_name = "add_group"
  /\ rtrRequest.target_managers = PyList(<<PyStr("Handler2")>>)
  /\ DOMAIN rtrLast.result.response.v = {"Handler2"}
  /\ rtrLast.result.status = rtrLast.result.response.v["Handler2"].status

\* C8: in read-only mode, for every method name containing add, delete,
\* associate, update or set, _safe_call calls no manager method and returns
\* Result{470, "Read-only operation is enabled, but write operation
\* requested"}.
C8_ReadOnlyGate ==
  (rtrPc = "returned" /\ rtrReadOnly
     /\ ContainsWriteWord(rtrRequest.method_name)) =>
    /\ ~rtrLast.exc
    /\ rtrLast.result =
         Result(470, PyStr("Read-only operation is enabled, but write operation requested"))
    /\ CalledManagers = {}

\* A read-only Router with two managers exposing the method has refused a
\* method whose name contains a write word in the middle.
C8_Witness ==
  /\ rtrPc = "returned"
  /\ rtrReadOnly
  /\ rtrManagers = <<Handler1, Handler2>>
  /\ rtrRequest.method_name = "disassociate_user_from_group"
  /\ rtrRequest.target_managers = PyStr("any")
  /\ rtrLast.result.status = 470

\* A mapping that names the Router method `name` and has a key for each of
\* its declared parameters except managers.
OmitsOnlyManagers(message, name) ==
  /\ message.k = "map"
  /\ "action" \in DOMAIN message.v
  /\ message.v["action"] = PyStr(name)
  /\ "managers" \notin DOMAIN message.v
  /\ \A i \in DOMAIN RouterHandler.attrs[name].params :
       RouterHandler.attrs[name].params[i] # "managers" =>
         RouterHandler.attrs[name].params[i] \in DOMAIN message.v

\* C9: a Router request envelope that omits the managers key is handled as
\* if managers were "any": call_method invokes the Router's public method
\* with managers = "any" and yields no envelope error status.
C9_ManagersDefaultsToAny ==
  \A name \in {"add_group", "list_groups"} :
    (dPc = "server" /\ dHandler = RouterHandler
       /\ OmitsOnlyManagers(dMessage, name)) =>
      /\ dRet.exc = "none"
      /\ dRet.ret.status \notin {450, 451, 452}
      /\ Len(dRet.calls) = 1
      /\ dRet.calls[1].name = name
      /\ dRet.calls[1].args[Len(dRet.calls[1].args)] = PyStr("any")

\* The message names a method of the handler.
NamesMethod(obj, message) ==
  /\ "action" \in DOMAIN message.v
  /\ message.v["action"].k = "str"
  /\ message.v["action"].v \in DOMAIN obj.attrs
  /\ obj.attrs[message.v["action"].v].callable

\* Some declared parameter of the named method has no key in the message.
LacksParameter(obj, message) ==
  \E i \in DOMAIN obj.attrs[message.v["action"].v].params :
    obj.attrs[message.v["action"].v].params[i] \notin DOMAIN message.v

\* C10: call_method of the RPC server and of the Consumer returns
\* {450, null} for a mapping without an action key, and {452, null} when
\* action names a handler method one of whose declared parameters has no
\* key in the message; in both cases no handler method is invoked.
C10_EnvelopeErrors ==
  (dPc \in {"server", "consumer"} /\ dMessage.k = "map") =>
    /\ "action" \notin DOMAIN dMessage.v =>
         dRet = CallRet(get_error_response(450), <<>>)
    /\ (NamesMethod(dHandler, dMessage) /\ LacksParameter(dHandler, dMessage)) =>
         dRet = CallRet(get_error_response(452), <<>>)

\* The Consumer has answered {action: echo} (no message key) with 452.
C10_Witness ==
  /\ dPc = "consumer"
  /\ dHandler = OrderedHandler
  /\ dMessage = PyMap([action |-> PyStr("echo")])
  /\ dRet = CallRet(get_error_response(452), <<>>)

\* The message has an action key whose value is not the name of a method
\* of the handler: no attribute of that name, or an attribute that is no
\* method.
NamesNoMethod(obj, message) ==
  /\ "action" \in DOMAIN message.v
  /\ ~NamesMethod(obj, message)

\* C11: for every message whose action value is not the name of a method of
\* the handler (no attribute of that name, or a non-method attribute of
\* that name), call_method returns {451, null} and invokes nothing.
C11_UnknownMethod ==
  (dPc \in {"server", "consumer"} /\ dMessage.k = "map"
     /\ NamesNoMethod(dHandler, dMessage)) =>
    dRet = CallRet(get_error_response(451), <<>>)

\* The values of the message under the declared parameters of the named
\* method, in declared order.
DeclaredArgs(obj, message) ==
  [i \in DOMAIN obj.attrs[message.v["action"].v].params |->
     message.v[obj.attrs[message.v["action"].v].params[i]]]

\* C12: when action names a handler method and the message has a key for
\* every declared parameter, call_method invokes that method exactly once
\* with the values of those keys in declared order, whatever other keys the
\* message has, and returns the wire form of the Result the method
\* returned.
C12_InvokesInDeclaredOrder ==
  (dPc \in {"server", "consumer"} /\ dMessage.k = "map"
     /\ NamesMethod(dHandler, dMessage)
     /\ ~LacksParameter(dHandler, dMessage)) =>
    /\ dRet.exc = "none"
    /\ dRet.calls = <<[name |-> dMessage.v["action"].v,
                       args |-> DeclaredArgs(dHandler, dMessage)]>>
    /\ dOutcome.k = "result" => dRet.ret = to_transport_format(dOutcome.r)

\* The Consumer has dispatched add_group to the Router from a message with
\* keys in another order and an extra key: group_atts first, managers
\* second, the extra key dropped.
C12_Witness ==
  /\ dPc = "consumer"
  /\ dHandler = RouterHandler
  /\ dMessage = PyMap([action |-> PyStr("add_group"),
                       managers |-> PyStr("any"),
                       group_atts |-> PyMap([name |-> PyStr("g")]),
                       extra |-> PyInt(7)])
  /\ dOutcome = [k |-> "result", r |-> Result(1, PyStr("hello"))]
  /\ dRet = CallRet([status |-> 1, response |-> PyStr("hello")],
                    <<[name |-> "add_group",
                       args |-> <<PyMap([name |-> PyStr("g")]), PyStr("any")>>]>>)

\* C13: when the handler method raises during dispatch of a request on the
\* RPC server, the reply published for that request carries {455, null},
\* the message is acknowledged, and the server (its connection not lost)
\* stays in its consume loop, ready for the next queued message.
C13_HandlerRaiseIs455 ==
  \A i \in DOMAIN srvCalls :
    srvCalls[i].outcome = "raise" =>
      LET t == srvCalls[i].tag IN
        /\ t = srvCur.tag => srvPc \notin {"failed", "stopped"}
        /\ CallbackEnded(t) =>
             /\ Cardinality(RepliesTo(srvDelivered[t])) = 1
             /\ \A n \in RepliesTo(srvDelivered[t]) :
                  srvReplies[n].body = safe_dump(get_error_response(455))
             /\ \E n \in DOMAIN srvAcked : srvAcked[n] = t
        /\ (t = srvCur.tag /\ CallbackEnded(t) /\ srvDisconnects = 0) =>
             /\ srvPc = "consuming"
             /\ srvQueue # <<>> => ENABLED Deliver

\* The handler raised for the first request; its 455 reply was published
\* and acknowledged, and the second request was then dispatched.
C13_Witness ==
  /\ Len(srvCalls) = 2
  /\ srvCalls[1] = [tag |-> 1, name |-> "echo", outcome |-> "raise"]
  /\ srvCalls[2].tag = 2
  /\ srvReplies[1].body = safe_dump(get_error_response(455))
  /\ srvAcked = <<1, 2>>

\* The acknowledgements, and the dispatches, recorded for delivery t.
ConAcksOf(t) ==
  {i \in DOMAIN conEvents : conEvents[i] = ConAcked(t)}

ConDispatchesOf(t) ==
  {i \in DOMAIN conEvents : conEvents[i].e = "dispatch" /\ conEvents[i].tag = t}

\* The callback of delivery t has ended (it returned or raised).
ConCallbackEnded(t) ==
  t # conCur.tag \/ conPc \in {"consuming", "stopped", "failed"}

\* C14: every message delivered to Consumer.consume_callback is
\* acknowledged exactly once, whatever its payload decodes to and whatever
\* the handler does; an undecodable payload is acknowledged without any
\* dispatch, and a dispatched message is acknowledged only after the
\* handler call has completed.
C14_AcknowledgedExactlyOnce ==
  \A t \in 1..conTag :
    /\ Cardinality(ConAcksOf(t)) <= 1
    /\ ConCallbackEnded(t) => Cardinality(ConAcksOf(t)) = 1
    /\ conDelivered[t].body = BadYaml => ConDispatchesOf(t) = {}
    /\ \A d \in ConDispatchesOf(t) : \A a \in ConAcksOf(t) : d < a

\* The entries of the Producer's log for its k-th send.
PrdLogOf(k) == {i \in DOMAIN prdLog : prdLog[i].send = k}

PrdPublishesOf(k) == {i \in PrdLogOf(k) : prdLog[i].e = "publish"}

C16_SendAlwaysReturnsResult ==
  \A k \in DOMAIN prdResults :
    /\ prdResults[k].k = "result"
    /\ (\E i \in PrdLogOf(k) : prdLog[i].e = "connect" /\ ~prdLog[i].ok) =>
         prdResults[k].r.status \in {0, 470}

\* C17: a send every publish attempt of which raised has, when it returns,
\* made 10 publish attempts, slept (attempt-1)*5 seconds after the failure
\* of each, and returns 470 with the message "Message could not be
\* delivered".
C17_TenPublishAttempts ==
  \A k \in DOMAIN prdResults :
    (/\ prdResults[k].k = "result"
     /\ PrdPublishesOf(k) # {}
     /\ \A i \in PrdPublishesOf(k) : ~prdLog[i].ok) =>
      /\ prdResults[k] =
           Returned(Result(470, PyStr("Message could not be delivered")))
      /\ Cardinality(PrdPublishesOf(k)) = 10
      /\ \A i \in PrdPublishesOf(k) :
           prdLog[i + 1] = Slept(k, prdLog[i].attempt, (prdLog[i].attempt - 1) * 5)

\* The send that has just returned published its request, and no reply
\* with the pending correlation id arrived while it waited.
ReturnedUnanswered ==
  /\ cliPc = "idle"
  /\ cliSends = Len(cliResults)
  /\ cliSends > 0
  /\ cliResults[cliSends].k = "result"
  /\ cliResults[cliSends].r.status \notin {453, 470}
  /\ MatchingSeen(cliSends) = {}

\* C18: when the request has been published and no reply with the pending
\* correlation id arrives, send performs 36 polls (of 5 seconds each) and
\* then returns 471.
C18_ThirtySixPolls ==
  ReturnedUnanswered =>
    /\ cliResults[cliSends] =
         Returned(Result(471, PyStr("Operation timed out waiting for a response")))
    /\ cliPolls = 36

\* The step is a send of the RPC client, or of the Producer, returning 453.
ClientReturns453 ==
  /\ Len(cliResults') = Len(cliResults) + 1
  /\ cliResults'[Len(cliResults')] = Returned(Result(453, PyNone))

ProducerReturns453 ==
  /\ Len(prdResults') = Len(prdResults) + 1
  /\ prdResults'[Len(prdResults')].k = "result"
  /\ prdResults'[Len(prdResults')].r.status = 453

\* C19: a send that fails to serialize its value returns 453 having made no
\* publish attempt and no reconnect and, for the RPC client, having left
\* the pending correlation id and the stored response as they were.
C19_SerializationFailure ==
  [][/\ ClientReturns453 =>
          UNCHANGED <<cliCorrId, cliResponse, cliCallbackQueue, cliConnOpen,
                      cliAttempts, cliNotSent, cliPolls, cliUuids,
                      brokerRequests>>
     /\ ProducerReturns453 =>
          UNCHANGED <<prdLog, prdConnOpen, prdChannel, prdAttempts, prdNotSent>>
    ]_vars

\* The first send of the RPC client returned the reply to its request; the
\* second failed to serialize and left the stored response in place.
C19_Witness ==
  /\ Len(cliResults) = 2
  /\ cliResults[1] = Returned(Result(0, PyInt(1)))
  /\ cliResults[2] = Returned(Result(453, PyNone))
  /\ cliResponse = <<safe_dump(to_transport_format(Result(0, PyInt(1))))>>
  /\ brokerRequests = <<>>

\* The deliveries of the CLOSE_IMMEDIATELY message whose callback has ended.
CloseDeliveries ==
  {t \in 1..srvTag :
     srvDelivered[t].body = Yaml(CLOSE_IMMEDIATELY) /\ CallbackEnded(t)}

\* C20: when the RPC server consumes CLOSE_IMMEDIATELY it publishes the
\* reply {0, "SHUTDOWN_INIT"}, acknowledges the message, does not invoke
\* the handler and stops consuming; start() then returns with no later
\* message delivered and without reconnecting.
C20_CloseImmediately ==
  \A t \in CloseDeliveries :
    /\ Cardinality(RepliesTo(srvDelivered[t])) = 1
    /\ \A n \in RepliesTo(srvDelivered[t]) :
         srvReplies[n].body =
           safe_dump(to_transport_format(Result(0, PyStr("SHUTDOWN_INIT"))))
    /\ \E n \in DOMAIN srvAcked : srvAcked[n] = t
    /\ \A n \in DOMAIN srvCalls : srvCalls[n].tag # t
    /\ srvExit
    /\ srvTag = t
    /\ srvPc \in {"stopped", "returned"}
    /\ ENABLED StartReturns \/ srvPc = "returned"

\* The server was reconnected once, consumed CLOSE_IMMEDIATELY and start()
\* returned, a later message still queued and never delivered.
C20_Witness ==
  /\ srvPc = "returned"
  /\ srvExit
  /\ srvDisconnects = 1
  /\ srvTag = 1
  /\ srvDelivered[1].body = Yaml(CLOSE_IMMEDIATELY)
  /\ srvAcked = <<1>>
  /\ Len(srvReplies) = 1
  /\ srvQueue # <<>>

\* C21: once a shutdown request has been made (a CLOSE_IMMEDIATELY message
\* consumed, a keyboard interrupt, a termination signal), the loop of start
\* makes no further connect attempt.
C21_NoConnectAfterShutdownRequest ==
  stRequested # {} => ~(ENABLED StartConnectOk \/ ENABLED StartConnectFails)

\* start returned without ever having connected and without any shutdown
\* request.
GaveUp ==
  /\ stPc = "returned"
  /\ stRequested = {}
  /\ \A i \in DOMAIN stLog : stLog[i] # "connect"

\* C22: when every connect attempt fails and no shutdown is requested,
\* start has made 30 connect attempts when it gives up, and it slept
\* attempt*5 seconds after the failure of attempt number attempt.
C22_ThirtyConnectAttempts ==
  GaveUp =>
    /\ Len(stFailed) = 30
    /\ \A i \in DOMAIN stFailed :
         stFailed[i] = [attempt |-> i, sleep |-> i * 5]

\* The shutdown of the component has run to its end: the Consumer's start
\* returned, the RPC server left its `with` block.
ShutDown ==
  \/ stKind = "Consumer" /\ stPc = "returned"
  \/ stKind = "RPCServer" /\ stPc = "exited"

\* C25: when the component has shut down, the handler's finalize() has been
\* called, and every call of it comes after a stop_consuming and a close.
C25_FinalizeLast ==
  ShutDown =>
    /\ \E i \in DOMAIN stLog : stLog[i] = "finalize"
    /\ \A i \in DOMAIN stLog :
         stLog[i] = "finalize" =>
           /\ \E j \in 1..(i - 1) : stLog[j] = "stop_consuming"
           /\ \E j \in 1..(i - 1) : stLog[j] = "close"

\* A manager method called during the request returned a non-zero status.
SomeManagerFailed ==
  \E m \in DOMAIN rtrLast.events :
    /\ rtrLast.events[m].e = "record"
    /\ rtrLast.events[m].result.status # 0

\* C24: if a manager method called during a Router request returned a
\* non-zero status, the Result the Router returns is an error.
C24_FailureIsVisible ==
  (rtrPc = "returned" /\ ~rtrLast.exc /\ SomeManagerFailed) =>
    is_error(rtrLast.result)

\* Every HOOKS entry can be instantiated, its initialize() returns and it
\* exposes finalize.
AllHooksLoad ==
  \A i \in DOMAIN rcHooks : rcHooks[i].kind \in {"ok", "finalize_raises"}

C26_FinalizeReachesEveryManager ==
  /\ \A i \in RouterCalls("Router.finalize") :
       \A m \in DOMAIN rcManagers :
         /\ i + m <= Len(rcLog)
         /\ rcLog[i + m] = [e |-> "finalize", path |-> rcManagers[m].path,
                            i |-> m]
  /\ \A i \in RouterCalls("__exit__") :
       /\ rcLog[i + 1].e = "Router.finalize"
       /\ \A j \in RouterCalls("Router.finalize") : j > i => j = i + 1
  /\ \A i \in RouterCalls("Router.initialize") :
       i < Len(rcLog) =>
         rcLog[i + 1].e \in {"request", "Router.initialize",
                             "Router.finalize", "__exit__"}

\* C29: every request that add_group, update_group, add_user or update_user
\* hands to the transport's send carries attributes with a name key.
C29_NameRequired ==
  \A i \in DOMAIN fcSent :
    fcSent[i].action \in AttsMethods => "name" \in DOMAIN fcSent[i].atts

\* C30: for each of METAROOT_MQUSER, METAROOT_MQPASS, METAROOT_MQHOST and
\* METAROOT_MQPORT set in the environment at load time, the configuration
\* get_config returns for a role holds the environment's value under the
\* corresponding key, also when the role's section defines that key.
C30_EnvironmentWins ==
  (cfPc = "loaded" /\ cfGot.key # "none" /\ ~cfGot.exc) =>
    \A v \in DOMAIN cfEnv : cfGot.data[params[v]] = cfEnv[v]

\* The methods the claim lists as refused and as fanned out in read-only
\* mode.
RefusedInReadOnly ==
  {"add_group", "update_group", "delete_group", "add_user", "update_user",
   "delete_user", "set_user_default_group", "associate_user_to_group",
   "disassociate_user_from_group", "disassociate_users_from_group"}

FannedOutInReadOnly ==
  {"get_group", "get_members", "exists_group", "get_user", "exists_user",
   "list_groups", "list_users", "validate_users", "roles_user"}

\* C28: in read-only mode a public method of the Router returns 470 without
\* calling a manager exactly if it is one of the ten listed write methods;
\* each of the nine listed read methods does what it does with read-only
\* disabled: the same manager calls and the same aggregated Result.
C28_ReadOnlySplit ==
  (rtrPc = "returned" /\ rtrReadOnly) =>
    /\ rtrRequest.method_name \in RefusedInReadOnly \cup FannedOutInReadOnly
    /\ rtrRequest.method_name \in RefusedInReadOnly =>
         /\ ~rtrLast.exc
         /\ rtrLast.result.status = 470
         /\ \A m \in DOMAIN rtrLast.events : rtrLast.events[m].e # "call"
    /\ rtrRequest.method_name \in FannedOutInReadOnly =>
         /\ rtrLast = Router_public(rtrManagers, FALSE,
                        rtrRequest.method_name, rtrRequest.target_managers,
                        rtrRequest.outcomes)
         /\ ~rtrLast.exc => rtrLast.result.status # 470

\* Read-only, two managers: get_group reaches both and returns their sum;
\* so does it with read-only disabled.
C28_Witness ==
  /\ rtrPc = "returned"
  /\ rtrReadOnly
  /\ Len(rtrManagers) = 2
  /\ rtrManagers[1].cls = "Handler1"
  /\ rtrManagers[2].cls = "Handler2"
  /\ rtrRequest.method_name = "get_group"
  /\ rtrRequest.target_managers = PyStr("any")
  /\ ~rtrLast.exc
  /\ DOMAIN rtrLast.result.response.v = {"Handler1", "Handler2"}
  /\ rtrLast.result.status = 1

\* The reply the server published for the request of the k-th send.
RpcRepliesTo(k) ==
  {i \in DOMAIN srvReplies : srvReplies[i].correlation_id = uuid4(k)}

\* C27: one client sending to one server with no publish failure: the
\* handler is invoked once per request delivered, in the order sent, and a
\* send during whose wait the reply to its request reached the client
\* returns the Result the handler produced for that request.
C27_KthSendKthResult ==
  /\ \A i \in DOMAIN srvCalls :
       /\ srvCalls[i].tag = i
       /\ srvDelivered[i].correlation_id = uuid4(i)
  /\ \A k \in DOMAIN cliResults :
       (/\ MatchingSeen(k) # {}
        /\ k \in DOMAIN srvCalls
        /\ srvCalls[k].outcome = "result") =>
         \A i \in RpcRepliesTo(k) :
           cliResults[k] =
             Returned(from_transport_format(safe_load(srvReplies[i].body).value))

\* The positions of the manager calls, of the journal records and of the
\* reactions among the events of the _safe_call that returned.
EventsOf(kind) == {p \in DOMAIN rtrLast.events : rtrLast.events[p].e = kind}

\* C32: within one _safe_call the managers are invoked in HOOKS order, each
\* at most once, and the journal record and the reaction of a call come
\* before the next manager is invoked.
C32_OneManagerAtATime ==
  rtrPc = "returned" =>
    /\ \A p \in EventsOf("call") :
         /\ rtrLast.events[p].i \in DOMAIN rtrManagers
         /\ rtrLast.events[p].cls = rtrManagers[rtrLast.events[p].i].cls
    /\ \A p \in EventsOf("call") : \A q \in EventsOf("call") :
         p < q =>
           /\ rtrLast.events[p].i < rtrLast.events[q].i
           /\ p + 2 < q
           /\ rtrLast.events[p + 1].e = "record"
           /\ rtrLast.events[p + 2].e = "react"
           /\ rtrLast.events[p + 2].cls = rtrLast.events[p].cls

\* Handler1 and then Handler2 were called, each followed by its record and
\* its reaction.
C32_Witness ==
  /\ rtrPc = "returned"
  /\ ~rtrLast.exc
  /\ rtrManagers = <<Handler1, Handler2>>
  /\ Len(rtrLast.events) = 6
  /\ rtrLast.events[1].e = "call" /\ rtrLast.events[1].cls = "Handler1"
  /\ rtrLast.events[4].e = "call" /\ rtrLast.events[4].cls = "Handler2"

\* C33: a _safe_call in which a selected manager's method raises still
\* calls every selected manager and returns a Result to the caller, one
\* with a non-zero status.
C33_RaiseIsRecorded ==
  (/\ rtrPc = "returned"
   /\ \E p \in EventsOf("call") : p = Len(rtrLast.events)) =>
    /\ ~rtrLast.exc
    /\ CalledManagers = PassingManagers
    /\ is_error(rtrLast.result)

\* The manager calls that returned: those followed by another event.
ReturnedCalls == {p \in EventsOf("call") : p < Len(rtrLast.events)}

RECURSIVE SumOfReturns(_)
SumOfReturns(ps) ==
  IF ps = {} THEN 0
  ELSE LET p == CHOOSE x \in ps : TRUE
       IN rtrLast.events[p].ret + SumOfReturns(ps \ {p})

C37_ReactionCountsErrors ==
  rtrPc = "returned" =>
    \A p \in EventsOf("react") :
      /\ rtrLast.events[p].sent = is_error(rtrLast.events[p - 1].result)
      /\ rtrLast.events[p].ret =
           (IF is_error(rtrLast.events[p - 1].result) THEN 1 ELSE 0)

\* C34: every request published by send, a retry after a reconnect
\* included, carries the correlation id generated at the start of that send
\* (never null) and the name of the client's current reply queue.
C34_PublishCarriesCorrId ==
  [][Len(brokerRequests') > Len(brokerRequests) =>
       LET m == brokerRequests'[Len(brokerRequests')]
       IN /\ m.correlation_id # None
          /\ m.correlation_id = uuid4(cliUuids)
          /\ m.reply_to = cliCallbackQueue']_vars

\* C31: to_transport_format yields a mapping with exactly the keys status
\* and response, and from_transport_format of that mapping is a Result with
\* the status and the response of the original.
C31_TransportRoundTrip ==
  /\ tfPc \in {"dict", "back"} =>
       /\ DOMAIN tfObj = {"status", "response"}
       /\ tfObj["status"] = tfResult.status
       /\ tfObj["response"] = tfResult.response
  /\ tfPc = "back" =>
       /\ tfBack.status = tfResult.status
       /\ tfBack.response = tfResult.response

\* A Result with a negative status and a mapping as response went through
\* both conversions.
C31_Witness ==
  /\ tfPc = "back"
  /\ tfResult.status < 0
  /\ tfResult.response.k = "map"
  /\ DOMAIN tfResult.response.v # {}
  /\ tfBack = tfResult

\* C38: connect_attempts is 1 after every successful connect and is
\* otherwise one more than the number of connects that failed since the
\* last successful one (or since start), so the budget is exhausted only by
\* an uninterrupted run of failed connects, whatever the number of
\* disconnects and reconnects before it.
C38_CountRestartsOnConnect ==
  stPc # "off" =>
    /\ stPc = "consuming" => stConnectAttempts = 1
    /\ stConnectAttempts = Len(stFailed) + 1
    /\ \A i \in DOMAIN stFailed : stFailed[i].attempt = i
    /\ stConnectAttempts >= ConnectLimit => Len(stFailed) = ConnectLimit - 1

\* The connection was lost after a successful connect, and start gave up
\* only after the whole run of failed connects that followed.
C38_Witness ==
  /\ stPc = "returned"
  /\ stLost >= 1
  /\ \E i \in DOMAIN stLog : stLog[i] = "connect"
  /\ stConnectAttempts = ConnectLimit
  /\ Len(stFailed) = ConnectLimit - 1

\* The deliveries made to the RPC server's callback and not acknowledged.
SrvUnacked ==
  {t \in 1..srvTag : \A i \in DOMAIN srvAcked : srvAcked[i] # t}

\* The deliveries made to the Consumer's callback and not acknowledged.
ConUnacked == {t \in 1..conTag : ConAcksOf(t) = {}}

C40_CloseNeverRaises ==
  \A i \in DOMAIN clLog :
    /\ ~clLog[i].exc
    /\ clLog[i].called <=> clLog[i].before = "open"
    /\ clLog[i].before # "open" => clLog[i].after = clLog[i].before
    /\ (clLog[i].before = "open" /\ ~clLog[i].warned) => clLog[i].after = "closed"

\* A close before any connect, then a close of the open connection, then
\* a second close that found it closed.
C40_Witness ==
  /\ Len(clLog) = 3
  /\ clLog[1].before = "None"
  /\ clLog[2].before = "open" /\ clLog[2].called /\ clLog[2].after = "closed"
  /\ clLog[3].before = "closed" /\ ~clLog[3].called

====
